---- MODULE Spec2Model ----
(***************************************************************************)
(* Budget cache of yashshah5489/very_latest: utils/cache_manager.py        *)
(* (CacheManager: get / set / clear / track_api_call, the persisted        *)
(* api_usage.json) and its two gated clients, ai/groq_client.py            *)
(* (GroqClient.chat_completion) and data_sources/news_extractor.py         *)
(* (NewsExtractor._make_request); and the passage retriever of             *)
(* ai/rag_system.py (RAGSystem._extract_relevant_passages, the chunking of *)
(* _process_books).                                                        *)
(*                                                                         *)
(* Time is time.time() in whole seconds.  Dictionaries are functions whose *)
(* DOMAIN is the set of keys present; a file that may be missing is a      *)
(* sequence of length 0 (missing) or 1 (its content).                      *)
(***************************************************************************)
EXTENDS Integers, Sequences, FiniteSets, TLC

VARIABLES
    now,          \* time.time()
    limits,       \* config.TAVILY_RATE_LIMIT_PER_DAY / GROQ_RATE_LIMIT_PER_DAY
    callers,      \* the api names this run's callers pass to track_api_call
    enabled,      \* CacheManager.enabled
    api_usage,    \* CacheManager._api_usage: api_name -> {count, last_reset}
    usage_file,   \* <cache_dir>/api_usage.json
    cache,        \* <cache_dir>/<md5(key)>.json: key -> {data, cached_at, expires_at}
    last,         \* the last operation: its name, arguments, result and call trace
    hist,         \* history: per api_name the window's start, calls and allowed calls
    written,      \* history: per key the last set not followed by a clear: data, time, ttl
    threads,      \* concurrent callers of track_api_call: position and locals
    chunker,      \* the paragraph-merging loop: its input, position and locals
    rag           \* RAGSystem: the cached passage files and the requests under way

vars == <<now, limits, callers, enabled, api_usage, usage_file, cache, last, hist, written, threads, chunker, rag>>

----------------------------------------------------------------------------
(* Bounds of the model *)

\* largest configured daily limit tried
MaxLimit == 2
\* the clock runs over MaxDays whole days ...
MaxDays == 1
\* ... plus at most MaxHours default expiry periods ...
MaxHours == 1
\* ... plus at most MaxSecs seconds
MaxSecs == 2
\* number of concurrent callers
NThreads == 2
\* calls of track_api_call per api name and window
MaxCalls == 3
\* paragraphs of a book that is chunked
MaxParagraphs == 3

----------------------------------------------------------------------------
(* Program constants *)

\* config.CACHE_EXPIRY_SECONDS (default)
CACHE_EXPIRY_SECONDS == 3600

\* track_api_call: one_day_seconds = 24 * 60 * 60
one_day_seconds == 24 * 60 * 60

\* the api names callers pass: the two configured ones, a case variant, an unknown one
ApiNames == {"tavily", "groq", "Groq", "serp"}

\* a run's callers use one configured name and one other name
CallerSets == {{"groq", "serp"}, {"tavily", "Groq"}}

\* str.lower() on the api names
Lower(api_name) == IF api_name = "Groq" THEN "groq" ELSE api_name

\* the counters __init__ builds before loading the usage file
DefaultUsage(t) ==
    [n \in {"tavily", "groq"} |-> [count |-> 0, last_reset |-> t]]

----------------------------------------------------------------------------
(* Dictionary helpers *)

\* d[k] = v, adding k when it is new
Put(d, k, v) == [x \in (DOMAIN d) \cup {k} |-> IF x = k THEN v ELSE d[x]]

\* del d[k]
Drop(d, k) == [x \in (DOMAIN d) \ {k} |-> d[x]]

\* the empty dictionary
Empty == [x \in {} |-> 0]

----------------------------------------------------------------------------
(* api_usage.json: json.dump / json.load of _api_usage *)

\* json.dump(self._api_usage, f): one object member per api name
JsonDumpUsage(u) ==
    {<<n, u[n].count, u[n].last_reset>> : n \in DOMAIN u}

\* json.load(f): the dictionary of the members
JsonLoadUsage(text) ==
    [n \in {m[1] : m \in text} |->
        LET m == CHOOSE m \in text : m[1] = n
        IN  [count |-> m[2], last_reset |-> m[3]]]

\* _save_api_usage: the file holds the whole dictionary
SaveApiUsage(u) == <<JsonDumpUsage(u)>>

\* mutant: the usage file is never read
LoadApiUsage_Never(defaults, file) == defaults

\* _load_api_usage: the file's dictionary replaces the defaults when the file exists
LoadApiUsage(defaults, file) ==
    IF file = <<>> THEN defaults ELSE JsonLoadUsage(file[1])

----------------------------------------------------------------------------
(* track_api_call *)

\* lines 154-155: an unseen api_name gets a new counter
EnsureCounter(u, api_name, t) ==
    IF api_name \in DOMAIN u THEN u
    ELSE Put(u, api_name, [count |-> 0, last_reset |-> t])

\* line 157: more than a day since last_reset
WindowElapsed(u, api_name, t) ==
    t - u[api_name].last_reset > one_day_seconds

\* lines 157-159: the counter restarts when its window has elapsed
ResetIfElapsed(u, api_name, t) ==
    IF WindowElapsed(u, api_name, t)
    THEN [u EXCEPT ![api_name] = [count |-> 0, last_reset |-> t]]
    ELSE u

\* lines 162-168: rate_limit is not None
HasRateLimit(api_name) == Lower(api_name) \in {"tavily", "groq"}

\* lines 162-166: the configured limit of the api
RateLimit(lim, api_name) == lim[Lower(api_name)]

\* mutant: the limit check is off by one
LimitExceeded_OffByOne(u, lim, api_name) == u[api_name].count > RateLimit(lim, api_name)

\* line 173: the counter has reached the limit
LimitExceeded(u, lim, api_name) == u[api_name].count >= RateLimit(lim, api_name)

\* mutant: an allowed call is counted twice
Increment_Twice(u, api_name) == [u EXCEPT ![api_name].count = @ + 2]

\* line 178: count += 1
Increment(u, api_name) == [u EXCEPT ![api_name].count = @ + 1]

\* mutant: the counter is incremented before the limit is checked
TrackResult_IncrementFirst(u, f, lim, api_name, t) ==
    LET u1 == ResetIfElapsed(EnsureCounter(u, api_name, t), api_name, t)
        u2 == Increment(u1, api_name)
    IN  IF ~HasRateLimit(api_name)
        THEN [usage |-> u1, file |-> f, allowed |-> TRUE]
        ELSE IF u2[api_name].count > RateLimit(lim, api_name)
        THEN [usage |-> u2, file |-> f, allowed |-> FALSE]
        ELSE [usage |-> u2, file |-> SaveApiUsage(u2), allowed |-> TRUE]

\* mutant: an api without a configured limit gets the limit 0
TrackResult_UnknownLimitZero(u, f, lim, api_name, t) ==
    LET u1 == ResetIfElapsed(EnsureCounter(u, api_name, t), api_name, t)
        lm == IF HasRateLimit(api_name) THEN RateLimit(lim, api_name) ELSE 0
    IN  IF u1[api_name].count >= lm
        THEN [usage |-> u1, file |-> f, allowed |-> FALSE]
        ELSE LET u2 == Increment(u1, api_name)
             IN  [usage |-> u2, file |-> SaveApiUsage(u2), allowed |-> TRUE]

\* the whole call on counters u and usage file f at time t:
\* the new counters, the new usage file and the returned value
TrackResult(u, f, lim, api_name, t) ==
    LET u1 == ResetIfElapsed(EnsureCounter(u, api_name, t), api_name, t)
    IN  IF ~HasRateLimit(api_name)
        THEN [usage |-> u1, file |-> f, allowed |-> TRUE]
        ELSE IF LimitExceeded(u1, lim, api_name)
        THEN [usage |-> u1, file |-> f, allowed |-> FALSE]
        ELSE LET u2 == Increment(u1, api_name)
             IN  [usage |-> u2, file |-> SaveApiUsage(u2), allowed |-> TRUE]

\* history of the calls for a limited api_name: the window restarts when a call
\* finds more than a day elapsed since its start
HistAfterTrack(h, api_name, t, allowed) ==
    LET fresh == [start |-> t, calls |-> 0, granted |-> 0]
        h0 == IF api_name \in DOMAIN h
              THEN (IF t - h[api_name].start > one_day_seconds THEN fresh ELSE h[api_name])
              ELSE fresh
    IN  IF ~HasRateLimit(api_name) THEN h
        ELSE Put(h, api_name, [start   |-> h0.start,
                               calls   |-> h0.calls + 1,
                               granted |-> h0.granted + (IF allowed THEN 1 ELSE 0)])

\* the model stops calling for an api name after MaxCalls calls in one window
CallsLeft(h, api_name, t) ==
    IF api_name \notin DOMAIN h THEN TRUE
    ELSE IF t - h[api_name].start > one_day_seconds THEN TRUE
    ELSE h[api_name].calls < MaxCalls

TrackApiCall(api_name) ==
    LET r == TrackResult(api_usage, usage_file, limits, api_name, now)
    IN  /\ CallsLeft(hist, api_name, now)
        /\ api_usage' = r.usage
        /\ usage_file' = r.file
        /\ last' = [op |-> "track_api_call", arg |-> api_name, ret |-> r.allowed]
        /\ hist' = HistAfterTrack(hist, api_name, now, r.allowed)
        /\ UNCHANGED <<now, limits, callers, enabled, cache, written, threads, chunker, rag>>

----------------------------------------------------------------------------
(* get_api_usage_stats *)

\* max(a, b)
Max(a, b) == IF a >= b THEN a ELSE b

\* lines 223-228: the limit shown for a counter, 0 for a name without one
StatsLimit(lim, api_name) ==
    IF HasRateLimit(api_name) THEN RateLimit(lim, api_name) ELSE 0

\* lines 231-240: the statistics of every counter; a quotient a / b is kept as
\* the pair <<a, b>>
StatsOf(u, lim, t) ==
    [n \in DOMAIN u |->
        LET limit == StatsLimit(lim, n)
            elapsed == t - u[n].last_reset
            time_until_reset == Max(0, one_day_seconds - elapsed)
        IN  [count            |-> u[n].count,
             limit            |-> limit,
             usage_percent    |-> IF limit > 0 THEN <<u[n].count * 100, limit>> ELSE <<0, 1>>,
             reset_in_seconds |-> time_until_reset,
             reset_in_hours   |-> <<time_until_reset, 3600>>]]

\* mutant: the statistics restart every counter whose window has elapsed
StatsResult_ResetsElapsed(u, lim, t) ==
    LET u1 == [n \in DOMAIN u |->
                  IF WindowElapsed(u, n, t) THEN [count |-> 0, last_reset |-> t] ELSE u[n]]
    IN  [usage |-> u1, ret |-> StatsOf(u1, lim, t)]

\* the whole call on counters u at time t: the counters left and the returned value
StatsResult(u, lim, t) == [usage |-> u, ret |-> StatsOf(u, lim, t)]

GetApiUsageStats ==
    LET r == StatsResult(api_usage, limits, now)
    IN  /\ api_usage' = r.usage
        /\ last' = [op |-> "get_api_usage_stats", arg |-> "", ret |-> r.ret]
        /\ UNCHANGED <<now, limits, callers, enabled, usage_file, cache, hist, written,
                       threads, chunker, rag>>

----------------------------------------------------------------------------
(* get / set / clear *)

\* Python's None
None == "None"

\* cache keys and payloads the callers use
Keys == {"x", "y"}
Payloads == {"v1", "v2"}

\* the ttl argument: <<>> is ttl=None (not given), <<n>> is ttl=n (set takes any
\* integer)
TtlArgs == {<<>>, <<0>>, <<1>>, <<-1>>}

\* the seconds a ttl argument stands for when read as written
TtlSeconds(ttl) == IF ttl = <<>> THEN CACHE_EXPIRY_SECONDS ELSE ttl[1]

\* line 101: ttl = ttl or self.cache_expiry (None and 0 are both falsy)
TtlOrDefault(ttl, cache_expiry) ==
    IF ttl = <<>> THEN cache_expiry
    ELSE IF ttl[1] = 0 THEN cache_expiry
    ELSE ttl[1]

\* lines 106-110: the entry set writes
NewEntry(data, ttl, t) ==
    [data |-> data, cached_at |-> t, expires_at |-> t + TtlOrDefault(ttl, CACHE_EXPIRY_SECONDS)]

\* line 77: cached_data.get('expires_at', 0) < time.time()
Expired(entry, t) == entry.expires_at < t

\* a cache file that does not hold what set wrote, by what get meets in it:
\*   "truncated"      text json.load cannot parse (an empty file, a proper prefix
\*                    of the object set writes)
\*   "not_object"     a JSON value that is not an object (a list, a number, null)
\*   "bad_expires_at" an object whose expires_at is not a number
\*   "no_expires_at"  an object without the member expires_at
CorruptForms == {"truncated", "not_object", "bad_expires_at", "no_expires_at"}

\* the content of such a file
Corrupted(form) == [corrupt |-> form]

\* the file is not an object with data, cached_at and expires_at
IsCorrupt(file) == "corrupt" \in DOMAIN file

\* mutant: get has no except clause for json.JSONDecodeError
GetCorrupt_NoExcept(c, key) ==
    LET form == c[key].corrupt
    IN  IF form = "truncated"
        THEN [cache |-> c, ret |-> None, raised |-> "JSONDecodeError"]
        ELSE IF form = "not_object"
        THEN [cache |-> c, ret |-> None, raised |-> "AttributeError"]
        ELSE IF form = "bad_expires_at"
        THEN [cache |-> c, ret |-> None, raised |-> "TypeError"]
        ELSE [cache |-> Drop(c, key), ret |-> None, raised |-> None]

\* lines 72-87 on a corrupted file: json.load raises JSONDecodeError, caught at
\* line 85; cached_data.get on a value that is no dictionary raises
\* AttributeError and the comparison of a non-number with time.time() raises
\* TypeError, neither caught at line 85; a missing expires_at reads as 0, which
\* is before every time.time(), so the file is unlinked as expired
GetCorrupt(c, key) ==
    LET form == c[key].corrupt
    IN  IF form = "truncated"
        THEN [cache |-> c, ret |-> None, raised |-> None]
        ELSE IF form = "not_object"
        THEN [cache |-> c, ret |-> None, raised |-> "AttributeError"]
        ELSE IF form = "bad_expires_at"
        THEN [cache |-> c, ret |-> None, raised |-> "TypeError"]
        ELSE [cache |-> Drop(c, key), ret |-> None, raised |-> None]

\* get on cache files c at time t: the files left, the returned value and the
\* exception that leaves get, None when it returns
GetResult(c, en, key, t) ==
    IF ~en THEN [cache |-> c, ret |-> None, raised |-> None]
    ELSE IF key \notin DOMAIN c THEN [cache |-> c, ret |-> None, raised |-> None]
    ELSE IF IsCorrupt(c[key]) THEN GetCorrupt(c, key)
    ELSE IF Expired(c[key], t) THEN [cache |-> Drop(c, key), ret |-> None, raised |-> None]
    ELSE [cache |-> c, ret |-> c[key].data, raised |-> None]

\* set on cache files c at time t when the file is written: the files left
SetResult(c, en, key, data, ttl, t) ==
    IF ~en THEN c ELSE Put(c, key, NewEntry(data, ttl, t))

\* what the storage does to the write of set: "ok", open() raises IOError
\* ("open_fails", the file is as before), or the write raises IOError after
\* open() has truncated the file ("write_fails")
SetIo == {"ok", "open_fails", "write_fails"}

\* mutant: set writes the file whether caching is enabled or not
SetOutcome_IgnoresEnabled(c, en, key, data, ttl, t, io) ==
    IF io = "open_fails" THEN [cache |-> c, raised |-> None]
    ELSE IF io = "write_fails"
    THEN [cache |-> Put(c, key, Corrupted("truncated")), raised |-> None]
    ELSE [cache |-> Put(c, key, NewEntry(data, ttl, t)), raised |-> None]

\* lines 98-119: the files left and the exception that leaves set, None when it
\* returns; IOError is caught at line 118
SetOutcome(c, en, key, data, ttl, t, io) ==
    IF ~en THEN [cache |-> c, raised |-> None]
    ELSE IF io = "open_fails" THEN [cache |-> c, raised |-> None]
    ELSE IF io = "write_fails"
    THEN [cache |-> Put(c, key, Corrupted("truncated")), raised |-> None]
    ELSE [cache |-> SetResult(c, en, key, data, ttl, t), raised |-> None]

Get(key) ==
    LET r == GetResult(cache, enabled, key, now)
    IN  /\ cache' = r.cache
        /\ last' = [op |-> "get", arg |-> key, ret |-> r.ret, at |-> now,
                    raised |-> r.raised]
        /\ UNCHANGED <<now, limits, callers, enabled, api_usage, usage_file, hist,
                       written, threads, chunker, rag>>

\* set under a storage that behaves as io says
SetUnder(key, data, ttl, io) ==
    LET r == SetOutcome(cache, enabled, key, data, ttl, now, io)
    IN  /\ cache' = r.cache
        /\ last' = [op |-> "set", arg |-> key, ret |-> None, io |-> io,
                    raised |-> r.raised]
        /\ written' = IF io = "ok" THEN Put(written, key, [data |-> data, at |-> now, ttl |-> ttl])
                      ELSE IF io = "write_fails" /\ enabled /\ key \in DOMAIN written
                      THEN Drop(written, key)
                      ELSE written
        /\ UNCHANGED <<now, limits, callers, enabled, api_usage, usage_file, hist, threads, chunker, rag>>

\* set whose write succeeds
Set(key, data, ttl) == SetUnder(key, data, ttl, "ok")

\* line 128, not key: None and the empty string are both falsy
NoKey(key) == key = None \/ key = ""

\* lines 128-136: the cache files and the usage file left by clear(key); a key
\* that is None or empty is falsy, and then every *.json file of the cache
\* directory is unlinked, api_usage.json among them
ClearResult(c, f, key) ==
    IF NoKey(key)
    THEN [cache |-> Empty, file |-> <<>>]
    ELSE [cache |-> IF key \in DOMAIN c THEN Drop(c, key) ELSE c, file |-> f]

\* clear(key) with a key
Clear(key) ==
    LET r == ClearResult(cache, usage_file, key)
    IN  /\ cache' = r.cache
        /\ usage_file' = r.file
        /\ last' = [op |-> "clear", arg |-> key, ret |-> None]
        /\ written' = IF NoKey(key) THEN Empty
                      ELSE IF key \in DOMAIN written THEN Drop(written, key)
                      ELSE written
        /\ UNCHANGED <<now, limits, callers, enabled, api_usage, hist, threads, chunker, rag>>

\* clear() without a key
ClearAll == Clear(None)

\* the storage or another program damages the file of a key
Corrupt(key, form) ==
    /\ enabled
    /\ cache' = Put(cache, key, Corrupted(form))
    /\ last' = [op |-> "corrupt", arg |-> key, ret |-> None]
    /\ written' = IF key \in DOMAIN written THEN Drop(written, key) ELSE written
    /\ UNCHANGED <<now, limits, callers, enabled, api_usage, usage_file, hist, threads, chunker, rag>>

----------------------------------------------------------------------------
(* The gated clients: GroqClient.chat_completion, NewsExtractor._make_request *)

\* what a request did, in order: "get", "track_allowed" or "track_denied",
\* "upstream" (llm.invoke / requests.post), "set"

\* hashlib.md5(...).hexdigest() of a request's text, one digest per text
Md5(text) == "#" \o text

\* groq_client.py line 84, with the default model, temperature and max_tokens
GroqCacheKey(messages) == "groq_llama3-70b-8192_0.7_1024_" \o Md5(messages)

\* news_extractor.py line 58
TavilyCacheKey(endpoint, params) == "tavily_" \o endpoint \o "_" \o Md5(params)

\* the requests the callers make
Messages == {"m1"}
Params == {"q1"}

\* groq_client.py line 75 / news_extractor.py line 41: cache_manager is not None
\* (the import of utils.cache_manager succeeds in this repository)
caching_enabled == TRUE

\* the error results
ErrApiKey == "error: API key not configured"
ErrLlm == "error: LLM not initialized"
ErrRateLimit == "error: Daily rate limit exceeded"
ErrUpstream == "error: upstream exception"

\* the upstream results: a response, and for Tavily a body with an "error" member
GroqResponse == "choices"
TavilyResults == "results"
TavilyErrorBody == "error: body"

\* "error" in result
HasErrorMember(result) == result \in {ErrApiKey, ErrLlm, ErrRateLimit, ErrUpstream, TavilyErrorBody}

\* the part of both clients after the gate: the upstream call and the caching of
\* its result. s is the state so far: cache, usage, file, trace.
UpstreamAndCache(s, en, t, outcome, response, cache_key, do_cache) ==
    IF outcome = "raise"
    THEN [s EXCEPT !.trace = Append(@, "upstream"), !.ret = ErrUpstream]
    ELSE IF do_cache
    THEN [s EXCEPT !.trace = @ \o <<"upstream", "set">>,
                   !.cache = SetResult(s.cache, en, cache_key, response, <<>>, t),
                   !.ret = response]
    ELSE [s EXCEPT !.trace = Append(@, "upstream"), !.ret = response]

\* mutant: the result of track_api_call is ignored
GateStep_IgnoresDenial(s, en, lim, t, api_name, cache_key) ==
    LET g == GetResult(s.cache, en, cache_key, t)
        r == TrackResult(s.usage, s.file, lim, api_name, t)
    IN  IF g.ret # None
        THEN [s EXCEPT !.cache = g.cache, !.trace = Append(@, "get"),
                       !.ret = g.ret, !.done = TRUE]
        ELSE [s EXCEPT !.cache = g.cache, !.usage = r.usage, !.file = r.file,
                       !.trace = @ \o <<"get", IF r.allowed THEN "track_allowed"
                                                            ELSE "track_denied">>]

\* mutant: the call is counted before the cache is looked up
GateStep_TrackFirst(s, en, lim, t, api_name, cache_key) ==
    LET g == GetResult(s.cache, en, cache_key, t)
        r == TrackResult(s.usage, s.file, lim, api_name, t)
    IN  IF ~r.allowed
        THEN [s EXCEPT !.usage = r.usage, !.file = r.file,
                       !.trace = @ \o <<"track_denied">>,
                       !.ret = ErrRateLimit, !.done = TRUE]
        ELSE IF g.ret # None
        THEN [s EXCEPT !.cache = g.cache, !.usage = r.usage, !.file = r.file,
                       !.trace = @ \o <<"track_allowed", "get">>,
                       !.ret = g.ret, !.done = TRUE]
        ELSE [s EXCEPT !.cache = g.cache, !.usage = r.usage, !.file = r.file,
                       !.trace = @ \o <<"track_allowed", "get">>]

\* the cache lookup and the gate of both clients
\* (groq_client.py lines 87-95, news_extractor.py lines 62-70)
GateStep(s, en, lim, t, api_name, cache_key) ==
    LET g == GetResult(s.cache, en, cache_key, t)
        r == TrackResult(s.usage, s.file, lim, api_name, t)
    IN  IF g.ret # None
        THEN [s EXCEPT !.cache = g.cache, !.trace = Append(@, "get"),
                       !.ret = g.ret, !.done = TRUE]
        ELSE IF ~r.allowed
        THEN [s EXCEPT !.cache = g.cache, !.usage = r.usage, !.file = r.file,
                       !.trace = @ \o <<"get", "track_denied">>,
                       !.ret = ErrRateLimit, !.done = TRUE]
        ELSE [s EXCEPT !.cache = g.cache, !.usage = r.usage, !.file = r.file,
                       !.trace = @ \o <<"get", "track_allowed">>]

\* the state a request starts from
RequestStart(c, u, f) ==
    [cache |-> c, usage |-> u, file |-> f, trace |-> <<>>, ret |-> None, done |-> FALSE]

\* GroqClient.chat_completion when llm.invoke, if called, gives response
ChatCompletionReply(c, u, f, en, lim, t, messages, stream, api_key, llm, outcome, response) ==
    LET s0 == RequestStart(c, u, f)
        cache_key == GroqCacheKey(messages)
        gated == caching_enabled /\ ~stream
        s1 == IF gated THEN GateStep(s0, en, lim, t, "groq", cache_key) ELSE s0
    IN  IF ~api_key THEN [s0 EXCEPT !.ret = ErrApiKey]
        ELSE IF ~llm THEN [s0 EXCEPT !.ret = ErrLlm]
        ELSE IF s1.done THEN s1
        ELSE UpstreamAndCache(s1, en, t, outcome, response, cache_key,
                              caching_enabled /\ ~stream)

\* GroqClient.chat_completion
ChatCompletionResult(c, u, f, en, lim, t, messages, stream, api_key, llm, outcome) ==
    ChatCompletionReply(c, u, f, en, lim, t, messages, stream, api_key, llm, outcome,
                        GroqResponse)

\* NewsExtractor._make_request
MakeRequestResult(c, u, f, en, lim, t, endpoint, params, api_key, outcome) ==
    LET s0 == RequestStart(c, u, f)
        cache_key == TavilyCacheKey(endpoint, params)
        s1 == IF caching_enabled THEN GateStep(s0, en, lim, t, "tavily", cache_key) ELSE s0
        result == IF outcome = "error_body" THEN TavilyErrorBody ELSE TavilyResults
    IN  IF ~api_key THEN [s0 EXCEPT !.ret = ErrApiKey]
        ELSE IF s1.done THEN s1
        ELSE UpstreamAndCache(s1, en, t, outcome, result, cache_key,
                              caching_enabled /\ ~HasErrorMember(result))

\* the history after a request with this trace
HistAfterRequest(h, api_name, t, trace) ==
    IF \E i \in 1..Len(trace) : trace[i] = "track_allowed"
    THEN HistAfterTrack(h, api_name, t, TRUE)
    ELSE IF \E i \in 1..Len(trace) : trace[i] = "track_denied"
    THEN HistAfterTrack(h, api_name, t, FALSE)
    ELSE h

ChatCompletion(messages, stream, api_key, llm, outcome) ==
    LET r == ChatCompletionResult(cache, api_usage, usage_file, enabled, limits, now,
                                  messages, stream, api_key, llm, outcome)
    IN  /\ CallsLeft(hist, "groq", now)
        /\ cache' = r.cache
        /\ api_usage' = r.usage
        /\ usage_file' = r.file
        /\ last' = [op |-> "chat_completion", arg |-> <<messages, stream>>,
                    ret |-> r.ret, trace |-> r.trace]
        /\ hist' = HistAfterRequest(hist, "groq", now, r.trace)
        /\ UNCHANGED <<now, limits, callers, enabled, written, threads, chunker, rag>>

MakeRequest(endpoint, params, api_key, outcome) ==
    LET r == MakeRequestResult(cache, api_usage, usage_file, enabled, limits, now,
                               endpoint, params, api_key, outcome)
    IN  /\ CallsLeft(hist, "tavily", now)
        /\ cache' = r.cache
        /\ api_usage' = r.usage
        /\ usage_file' = r.file
        /\ last' = [op |-> "_make_request", arg |-> <<endpoint, params>>,
                    ret |-> r.ret, trace |-> r.trace]
        /\ hist' = HistAfterRequest(hist, "tavily", now, r.trace)
        /\ UNCHANGED <<now, limits, callers, enabled, written, threads, chunker, rag>>

----------------------------------------------------------------------------
(* track_api_call called from several threads of one process (the Flask        *)
(* server handles requests in threads; the method takes no lock), one step per *)
(* read or write of the shared _api_usage                                      *)

Threads == 1..NThreads

\* everything but the shared counters, the usage file and the threads
conc_frame == <<now, limits, callers, enabled, cache, last, hist, written, chunker, rag>>

\* lines 151-170: the counter is created or reset, the limit is looked up, and a
\* call for an api without a limit returns True
T_Begin(t, api_name) ==
    /\ threads[t].pc = "idle"
    /\ api_usage' = ResetIfElapsed(EnsureCounter(api_usage, api_name, now), api_name, now)
    /\ threads' = [threads EXCEPT ![t] =
          IF HasRateLimit(api_name)
          THEN [pc |-> "check", api_name |-> api_name]
          ELSE [pc |-> "done", api_name |-> api_name, ret |-> TRUE]]
    /\ UNCHANGED <<usage_file, conc_frame>>

\* lines 173-175: the check of the counter against the limit
T_Check(t) ==
    /\ threads[t].pc = "check"
    /\ threads' = [threads EXCEPT ![t] =
          IF LimitExceeded(api_usage, limits, threads[t].api_name)
          THEN [pc |-> "done", api_name |-> threads[t].api_name, ret |-> FALSE]
          ELSE [pc |-> "read", api_name |-> threads[t].api_name]]
    /\ UNCHANGED <<api_usage, usage_file, conc_frame>>

\* line 178, count += 1: the read of count
T_ReadCount(t) ==
    /\ threads[t].pc = "read"
    /\ threads' = [threads EXCEPT ![t] =
          [pc |-> "write", api_name |-> threads[t].api_name,
           count |-> api_usage[threads[t].api_name].count]]
    /\ UNCHANGED <<api_usage, usage_file, conc_frame>>

\* line 178, count += 1: the write of count
T_WriteCount(t) ==
    /\ threads[t].pc = "write"
    /\ api_usage' = [api_usage EXCEPT ![threads[t].api_name].count = threads[t].count + 1]
    /\ threads' = [threads EXCEPT ![t] = [pc |-> "save", api_name |-> threads[t].api_name]]
    /\ UNCHANGED <<usage_file, conc_frame>>

\* lines 179-188: _save_api_usage, then return True
T_Save(t) ==
    /\ threads[t].pc = "save"
    /\ usage_file' = SaveApiUsage(api_usage)
    /\ threads' = [threads EXCEPT ![t] =
          [pc |-> "done", api_name |-> threads[t].api_name, ret |-> TRUE]]
    /\ UNCHANGED <<api_usage, conc_frame>>

----------------------------------------------------------------------------
(* set called from several threads of one process (cache_manager.py lines     *)
(* 98-119; the method takes no lock and writes the file in place).  open()    *)
(* with mode 'w' truncates the file and gives the thread a position of its    *)
(* own at the start of the file; the text json.dump produces is held in the   *)
(* buffer of the file object and written at that position when the with       *)
(* block closes the file.  A file is the sequence of its blocks.              *)

\* the length in blocks of the text json.dump writes for an entry: the payloads
\* differ in length
TextBlocks(data) == IF data = "v1" THEN 1 ELSE 2

\* line 114: the text of an entry, block by block
TextOf(entry) == [i \in 1..TextBlocks(entry.data) |-> <<entry, i>>]

\* the blocks of a cache file
Blocks(file) == IF IsCorrupt(file) THEN file.blocks ELSE TextOf(file)

\* what json.load makes of a file of these blocks: the entry whose text they
\* are, and otherwise text it cannot parse
FileOf(blocks) ==
    IF blocks # <<>> /\ blocks = TextOf(blocks[1][1])
    THEN blocks[1][1]
    ELSE [corrupt |-> "truncated", blocks |-> blocks]

\* lines 113-114: the file after a write of text at position 0 of a file opened
\* before: the blocks beyond the text stay
Overwritten(blocks, text) ==
    [i \in 1..Max(Len(blocks), Len(text)) |-> IF i <= Len(text) THEN text[i] ELSE blocks[i]]

\* everything but the cache files and the threads
set_frame == <<now, limits, callers, enabled, api_usage, usage_file, last, hist, written,
               chunker, rag>>

\* lines 98-113: the entry is built and open() truncates the file
S_Open(t, key, data) ==
    /\ threads[t].pc = "idle"
    /\ enabled
    /\ cache' = Put(cache, key, FileOf(<<>>))
    /\ threads' = [threads EXCEPT ![t] =
          [pc |-> "dump", key |-> key, entry |-> NewEntry(data, <<>>, now)]]
    /\ UNCHANGED set_frame

\* lines 114-116: json.dump and the end of the with block: the text is written
S_Dump(t) ==
    /\ threads[t].pc = "dump"
    /\ \E key \in {threads[t].key} :
          cache' = Put(cache, key,
                       FileOf(Overwritten(IF key \in DOMAIN cache THEN Blocks(cache[key])
                                          ELSE <<>>,
                                          TextOf(threads[t].entry))))
    /\ threads' = [threads EXCEPT ![t].pc = "set"]
    /\ UNCHANGED set_frame

\* get called once every thread has returned from set
S_Get(key) ==
    /\ \A t \in Threads : threads[t].pc = "set"
    /\ Get(key)

----------------------------------------------------------------------------
(* The paragraph-merging chunker: rag_system.py lines 426-439 (the keyword  *)
(* fallback, max_chunk_length = 500) and lines 233-266 (_process_books,     *)
(* max_chunk_length = 1000).  A text is the sequence of its characters.     *)

\* the text of n characters ch
Rep(ch, n) == [i \in 1..n |-> ch]

\* "\n\n"
Separator == <<"\n", "\n">>

\* line 428: max_chunk_length of the keyword fallback
max_chunk_length == 500

\* line 237: max_chunk_length of _process_books
max_chunk_length_books == 1000

\* lines 423 / 230: the paragraphs of a book are not empty, have no white space
\* at either end and no blank line inside. Those tried: one character, two
\* lines, and lengths half of, one below, equal to and one above the maximum M
ParagraphTexts(M) ==
    {Rep("a", 1), <<"a", "\n", "b">>, Rep("a", M \div 2), Rep("b", M - 1),
     Rep("a", M), Rep("b", M + 1)}

\* lines 431-436 / 241-255: the loop body for paragraph p
ChunkBody(current_chunk, chunks, p, M) ==
    IF Len(current_chunk) + Len(p) <= M
    THEN [current_chunk |-> IF current_chunk # <<>>
                            THEN current_chunk \o Separator \o p
                            ELSE p,
          chunks        |-> chunks]
    ELSE [current_chunk |-> p,
          chunks        |-> IF current_chunk # <<>>
                            THEN Append(chunks, current_chunk)
                            ELSE chunks]

\* mutant: the chunk under construction is not appended after the loop
ChunkEnd_DropsLast(current_chunk, chunks) == chunks

\* lines 438-439 / 257-258: the chunk under construction is appended
ChunkEnd(current_chunk, chunks) ==
    IF current_chunk # <<>> THEN Append(chunks, current_chunk) ELSE chunks

\* the loop from paragraph i on
RECURSIVE ChunkFrom(_, _, _, _, _)
ChunkFrom(paragraphs, i, current_chunk, chunks, M) ==
    IF i > Len(paragraphs)
    THEN ChunkEnd(current_chunk, chunks)
    ELSE \* r is the value of one pass
         CHOOSE result \in
             {ChunkFrom(paragraphs, i + 1, r.current_chunk, r.chunks, M) :
                 r \in {ChunkBody(current_chunk, chunks, paragraphs[i], M)}} : TRUE

\* lines 426-439 / 233-258: the chunks of a sequence of paragraphs
ChunkAll(paragraphs, M) == ChunkFrom(paragraphs, 1, <<>>, <<>>, M)

\* lines 426-428 / 233-238: the locals before the loop
ChunkStart(paragraphs, M) ==
    [paragraphs |-> paragraphs, max_chunk_length |-> M, i |-> 1,
     current_chunk |-> <<>>, chunks |-> <<>>, done |-> FALSE]

\* everything but the chunker
chunk_frame ==
    <<now, limits, callers, enabled, api_usage, usage_file, cache, last, hist, written,
      threads, rag>>

\* one pass of the loop
ChunkStep ==
    /\ ~chunker.done
    /\ chunker.i <= Len(chunker.paragraphs)
    /\ LET r == ChunkBody(chunker.current_chunk, chunker.chunks,
                          chunker.paragraphs[chunker.i], chunker.max_chunk_length)
       IN  chunker' = [chunker EXCEPT !.i = @ + 1,
                                      !.current_chunk = r.current_chunk,
                                      !.chunks = r.chunks]
    /\ UNCHANGED chunk_frame

\* the statement after the loop
ChunkFinish ==
    /\ ~chunker.done
    /\ chunker.i > Len(chunker.paragraphs)
    /\ chunker' = [chunker EXCEPT !.chunks = ChunkEnd(chunker.current_chunk, chunker.chunks),
                                  !.done = TRUE]
    /\ UNCHANGED chunk_frame

----------------------------------------------------------------------------
(* RAGSystem._extract_relevant_passages (rag_system.py lines 337-592).  A    *)
(* request runs in steps: the look-up and the similarity tier (lines         *)
(* 349-411), the second look-up of the keyword fallback (lines 417-450), the *)
(* direct extraction (lines 452-497) and the re-ranking (lines 499-592);     *)
(* requests of other threads of the server run in between.                   *)

\* str.lower() on the characters used
LowerChar(ch) == IF ch = "T" THEN "t" ELSE IF ch = "R" THEN "r" ELSE ch

\* text.lower()
LowerText(text) == [i \in 1..Len(text) |-> LowerChar(text[i])]

\* the characters used that the pattern \w matches
WordChars == {"a", "e", "r", "t", "x", "T", "R"}

\* re.findall(r'\w+', text): the maximal runs of word characters
Words(text) ==
    {SubSeq(text, i, j) : <<i, j>> \in
        {ij \in (1..Len(text)) \X (1..Len(text)) :
            /\ ij[1] <= ij[2]
            /\ \A k \in ij[1]..ij[2] : text[k] \in WordChars
            /\ ij[1] = 1 \/ text[ij[1] - 1] \notin WordChars
            /\ ij[2] = Len(text) \/ text[ij[2] + 1] \notin WordChars}}

\* kw in text: kw is a substring of text
Contains(text, kw) ==
    \E i \in 1..(Len(text) - Len(kw) + 1) : SubSeq(text, i, i + Len(kw) - 1) = kw

\* the queries asked, and the characters of each
Queries == {"Tax rate"}
Chars(query) == <<"T", "a", "x", " ", "r", "a", "t", "e">>

\* line 502: the keywords of a query
QueryKeywords(query) == Words(LowerText(Chars(query)))

\* self.books: a book of one chunk, a book of four chunks and a book of fifty;
\* the book ids asked for, one of them the id of no book
Books == <<"one", "small", "large">>
BookIds == {Books[i] : i \in 1..Len(Books)}
BookArgs == {"small", "large", "nobook"}

\* a paragraph that starts with words and is too long to be merged with another
Paragraph(words) == words \o Rep(".", 251)

\* the paragraphs of the books (line 423)
SmallParagraphs ==
    <<Paragraph(<<"T", "a", "x">>),
      Paragraph(<<"R", "a", "t", "e", " ", "t", "a", "x">>),
      Paragraph(<<"x">>),
      Paragraph(<<"r", "a", "t", "e">>)>>

\* three short paragraphs, one chunk together
ShortParagraphs == <<<<"T", "a", "x">>, <<"r", "a", "t", "e">>, <<"x">>>>

BookParagraphs(book_id) ==
    IF book_id = "one" THEN ShortParagraphs
    ELSE IF book_id = "small" THEN SmallParagraphs
    ELSE [i \in 1..50 |-> SmallParagraphs[(i % 4) + 1] \o Rep(".", i)]

\* lines 426-439: the chunks of each book
BookChunks == [b \in BookIds |-> ChunkAll(BookParagraphs(b), max_chunk_length)]

\* lines 229-258: the documents of each book's collection
CollectionDocuments ==
    [b \in BookIds |-> ChunkAll(BookParagraphs(b), max_chunk_length_books)]

\* line 507: the number of keywords the chunk holds
Score(chunk, keywords) ==
    Cardinality({kw \in keywords : Contains(LowerText(chunk), kw)})

\* lines 504-508: (score, i, chunk) for every chunk, i from 0
ScoredChunks ==
    [b \in BookIds |-> [q \in Queries |->
        [n \in 1..Len(BookChunks[b]) |->
            <<Score(BookChunks[b][n], QueryKeywords(q)), n - 1, BookChunks[b][n]>>]]]

\* mutant: the chunks stay in the order of the document
Before_DocumentOrder(x, y) == x[2] < y[2]

\* tuple x sorts before tuple y in descending order: the scores decide, then the
\* indices (no two tuples share an index)
Before(x, y) == x[1] > y[1] \/ (x[1] = y[1] /\ x[2] > y[2])

\* line 511: scored.sort(reverse=True): the tuple at position k of the sorted
\* list is the one that k - 1 tuples sort before
SortReverse(scored) ==
    [k \in 1..Len(scored) |->
        scored[CHOOSE i \in 1..Len(scored) :
            Cardinality({j \in 1..Len(scored) : Before(scored[j], scored[i])}) = k - 1]]

\* line 511: the sorted tuples of each book and query
SortedChunks ==
    [b \in BookIds |-> [q \in Queries |-> SortReverse(ScoredChunks[b][q])]]

\* line 514: top_chunks
TopChunks(book_id, query, max_passages) ==
    LET sorted == SortedChunks[book_id][query]
    IN  SubSeq(sorted, 1, IF max_passages * 2 <= Len(sorted)
                          THEN max_passages * 2 ELSE Len(sorted))

\* the decimal numerals used in prompts
Numeral(n) == <<"0", "1", "2", "3", "4", "5", "6", "7", "8", "9">>[n + 1]

\* lines 454-468: the prompt of the direct extraction; the content is the book's
DirectPrompt(book_id, query) == "find in " \o book_id \o " for " \o query

\* lines 517-535: the prompt of the re-ranking; the candidates are the book's
\* top chunks for the query, as many as given
RerankPrompt(book_id, query, candidates) ==
    "rank " \o Numeral(candidates) \o " of " \o book_id \o " for " \o query

\* what the LLM answers: text without JSON, a JSON number, or a JSON list of
\* objects with passage_number, text and relevance
ReplyProse == "Here are the passages"
ReplyNumber == "5"
ReplyObjects == "[{2,L1,r1},{1,L2,r2},{9,L3,r3},{3,L4,r4}]"
LlmReplies == {ReplyProse, ReplyNumber, ReplyObjects}

\* a JSON list of one object that has a relevance and neither text nor
\* passage_number
ReplyNoText == "[{r1}]"

\* lines 475-481 / 542-548: the value json.loads gives for the text of a reply,
\* with its kind; every other text (an error message of generate_text among
\* them) raises JSONDecodeError
JsonLoads(text) ==
    IF text = ReplyNumber THEN [raised |-> None, kind |-> "number", value |-> <<>>]
    ELSE IF text = ReplyObjects
    THEN [raised |-> None, kind |-> "objects",
          value |-> <<[passage_number |-> 2, text |-> <<"L", "1">>, relevance |-> "r1"],
                      [passage_number |-> 1, text |-> <<"L", "2">>, relevance |-> "r2"],
                      [passage_number |-> 9, text |-> <<"L", "3">>, relevance |-> "r3"],
                      [passage_number |-> 3, text |-> <<"L", "4">>, relevance |-> "r4"]>>]
    ELSE IF text = ReplyNoText
    THEN [raised |-> None, kind |-> "objects", value |-> <<[relevance |-> "r1"]>>]
    ELSE [raised |-> "JSONDecodeError", kind |-> None, value |-> <<>>]

\* what the upstream LLM does when llm.invoke is called: a reply, or "raise"
LlmBehaviours == LlmReplies \cup {"raise"}

\* GroqClient.generate_text (groq_client.py lines 154-163) on state s (cache,
\* usage, file): the state left, the trace of chat_completion and the text
GenerateText(s, en, lim, t, prompt, behaviour) ==
    LET r == ChatCompletionReply(s.cache, s.usage, s.file, en, lim, t, prompt, FALSE,
                                 TRUE, TRUE,
                                 IF behaviour = "raise" THEN "raise" ELSE "ok", behaviour)
    IN  [cache |-> r.cache, usage |-> r.usage, file |-> r.file, trace |-> r.trace,
         text |-> IF HasErrorMember(r.ret) THEN "Error: " \o r.ret ELSE r.ret]

\* the seeds hash() of str may work with: each run of the interpreter draws one
\* (PYTHONHASHSEED is not set by the repository)
HashSeeds == {1, 2}

\* hash(query) in a run with this seed, as text: one value per seed and query
Hash(seed, query) == "#" \o Numeral(seed) \o query

\* lines 356-357: the cache file of a book and a query
PassageKey(seed, book_id, query) == book_id \o "_" \o Hash(seed, query)

\* a passage: the book's title and author go with its id
Passage(book_id, text, relevance) ==
    [book_id |-> book_id, text |-> text, relevance |-> relevance]

\* the content of a cache file written by json.dump(passages, f)
PassageFile(passages) == [list |-> passages]

\* lines 359-364 / 445-450: the file exists and json.load reads it
Readable(files, key) == key \in DOMAIN files /\ ~IsCorrupt(files[key])

\* lines 371-377: what the collection does: there is none, the query raises, it
\* gives no document, or it gives documents
ChromaOutcomes == {"no_collection", "raises", "empty", "results"}

\* lines 379-399: the passages of the documents the query gives, n_results at
\* most; the first ones stand for the nearest
SimilarityPassages(book_id, max_passages) ==
    LET docs == CollectionDocuments[book_id]
        n == IF max_passages <= Len(docs) THEN max_passages ELSE Len(docs)
    IN  [i \in 1..n |-> Passage(book_id, docs[i], "Semantic similarity")]

\* mutant: the collection is queried before the book is looked for
LookupResult_QueriesUnknown(seed, files, book_id, query, max_passages, chroma) ==
    LET key == PassageKey(seed, book_id, query)
    IN  IF book_id \notin BookIds
        THEN [files |-> files, pc |-> "done", ret |-> <<>>, trace |-> <<"embed">>,
              path |-> <<"Similarity", "Done">>]
        ELSE IF Readable(files, key)
        THEN [files |-> files, pc |-> "done", ret |-> files[key].list,
              trace |-> <<"cache_hit">>, path |-> <<"CacheCheck", "Served">>]
        ELSE [files |-> files, pc |-> "fallback", ret |-> <<>>, trace |-> <<"embed">>,
              path |-> <<"CacheCheck", "Similarity">>]

\* mutant: the similarity tier runs before the look-up
LookupResult_QueryFirst(seed, files, book_id, query, max_passages, chroma) ==
    LET key == PassageKey(seed, book_id, query)
    IN  IF book_id \notin BookIds
        THEN [files |-> files, pc |-> "done", ret |-> <<>>, trace |-> <<>>,
              path |-> <<"Done">>]
        ELSE IF Readable(files, key)
        THEN [files |-> files, pc |-> "done", ret |-> files[key].list,
              trace |-> <<"embed", "cache_hit">>,
              path |-> <<"Similarity", "CacheCheck", "Served">>]
        ELSE [files |-> files, pc |-> "fallback", ret |-> <<>>, trace |-> <<"embed">>,
              path |-> <<"Similarity", "CacheCheck">>]

\* lines 349-411: the look-up and the similarity tier: the files left, where the
\* request stands, what it returns, what it did ("cache_hit", "embed") and the
\* stages it went through: the look-up of the cache file ("CacheCheck"), the
\* similarity tier ("Similarity"), and the return of a cached list ("Served") or
\* of another result ("Done")
LookupResult(seed, files, book_id, query, max_passages, chroma) ==
    LET key == PassageKey(seed, book_id, query)
        passages == SimilarityPassages(book_id, max_passages)
    IN  IF book_id \notin BookIds
        THEN [files |-> files, pc |-> "done", ret |-> <<>>, trace |-> <<>>,
              path |-> <<"Done">>]
        ELSE IF Readable(files, key)
        THEN [files |-> files, pc |-> "done", ret |-> files[key].list,
              trace |-> <<"cache_hit">>, path |-> <<"CacheCheck", "Served">>]
        ELSE IF chroma = "no_collection"
        THEN [files |-> files, pc |-> "fallback", ret |-> <<>>, trace |-> <<>>,
              path |-> <<"CacheCheck", "Similarity">>]
        ELSE IF chroma = "results"
        THEN [files |-> Put(files, key, PassageFile(passages)), pc |-> "done",
              ret |-> passages, trace |-> <<"embed">>,
              path |-> <<"CacheCheck", "Similarity", "Done">>]
        ELSE [files |-> files, pc |-> "fallback", ret |-> <<>>, trace |-> <<"embed">>,
              path |-> <<"CacheCheck", "Similarity">>]

\* line 453: a book of fewer chunks is given to the LLM whole
small_book_chunks == 50

\* lines 483-493: the passages of the direct extraction
DirectPassages(book_id, value) ==
    [i \in 1..Len(value) |->
        [member \in DOMAIN value[i] \cup {"book_id"} |->
            IF member = "book_id" THEN book_id ELSE value[i][member]]]

\* lines 551-565: the passages of a ranking: for each of the first max_passages
\* objects whose passage_number is a position of the candidate list, the
\* candidate at that position without its "[n] " prefix
RECURSIVE RankedPassages(_, _, _)
RankedPassages(book_id, ranked, top_chunks) ==
    IF ranked = <<>> THEN <<>>
    ELSE IF "passage_number" \notin DOMAIN Head(ranked)
    THEN RankedPassages(book_id, Tail(ranked), top_chunks)
    ELSE LET idx == Head(ranked).passage_number - 1
             rest == RankedPassages(book_id, Tail(ranked), top_chunks)
             relevance == IF "relevance" \in DOMAIN Head(ranked)
                          THEN Head(ranked).relevance ELSE ""
         IN  IF 0 <= idx /\ idx < Len(top_chunks)
             THEN <<Passage(book_id, top_chunks[idx + 1][3], relevance)>> \o rest
             ELSE rest

\* lines 577-588: the first max_passages top chunks as they are
LexicalPassages(book_id, top_chunks, max_passages) ==
    [i \in 1..(IF max_passages <= Len(top_chunks) THEN max_passages ELSE Len(top_chunks)) |->
        Passage(book_id, top_chunks[i][3], "Matched query keywords")]

\* lines 417-450: the book is read and chunked ("ChunkBuild"), and the cache
\* file is looked up again: where the request stands, what it returns, what it
\* did and the stages it went through
SecondLookupResult(seed, files, book_id, query) ==
    LET key == PassageKey(seed, book_id, query)
    IN  IF Readable(files, key)
        THEN [pc |-> "done", ret |-> files[key].list, trace |-> <<"cache_hit">>,
              path |-> <<"ChunkBuild", "CacheCheck", "Served">>]
        ELSE IF Len(BookChunks[book_id]) < small_book_chunks
        THEN [pc |-> "direct", ret |-> <<>>, trace |-> <<>>,
              path |-> <<"ChunkBuild", "CacheCheck">>]
        ELSE [pc |-> "rerank", ret |-> <<>>, trace |-> <<>>,
              path |-> <<"ChunkBuild", "CacheCheck">>]

\* lines 472-497: the direct extraction after generate_text gave text: the
\* files left, where the request stands, what it returns and the exception
\* caught at line 590. A text without JSON sends the request on to the
\* re-ranking; the loop of line 484 over a value that is no list of objects
\* raises TypeError
DirectResult(seed, files, book_id, query, max_passages, text) ==
    LET parsed == JsonLoads(text)
        passages == DirectPassages(book_id, parsed.value)
    IN  IF parsed.raised # None
        THEN [files |-> files, pc |-> "rerank", ret |-> <<>>, raised |-> None,
              path |-> <<"DirectExtract">>]
        ELSE IF parsed.kind # "objects"
        THEN [files |-> files, pc |-> "done", ret |-> <<>>, raised |-> "TypeError",
              path |-> <<"DirectExtract", "Done">>]
        ELSE [files |-> Put(files, PassageKey(seed, book_id, query), PassageFile(passages)),
              pc |-> "done",
              ret |-> SubSeq(passages, 1, IF max_passages <= Len(passages)
                                          THEN max_passages ELSE Len(passages)),
              raised |-> None,
              path |-> <<"DirectExtract", "Done">>]

\* mutant: a ranking that cannot be parsed is asked for again
RerankResult_AsksAgain(seed, files, book_id, query, max_passages, text) ==
    LET parsed == JsonLoads(text)
        top_chunks == TopChunks(book_id, query, max_passages)
    IN  IF parsed.raised # None
        THEN [files |-> files, ret |-> LexicalPassages(book_id, top_chunks, max_passages),
              raised |-> None,
              path |-> <<"ScoreRank", "LLMRerank", "LLMRerank", "LexicalFallback", "Done">>]
        ELSE [files |-> files, ret |-> <<>>, raised |-> "TypeError",
              path |-> <<"ScoreRank", "LLMRerank", "Done">>]

\* mutant: a ranking that cannot be parsed leaves the function empty-handed
RerankResult_GivesUp(seed, files, book_id, query, max_passages, text) ==
    LET parsed == JsonLoads(text)
        top_chunks == TopChunks(book_id, query, max_passages)
        ranked == SubSeq(parsed.value, 1, IF max_passages <= Len(parsed.value)
                                          THEN max_passages ELSE Len(parsed.value))
        passages == RankedPassages(book_id, ranked, top_chunks)
    IN  IF parsed.raised # None
        THEN [files |-> files, ret |-> <<>>, raised |-> "JSONDecodeError",
              path |-> <<"ScoreRank", "LLMRerank", "Done">>]
        ELSE IF parsed.kind # "objects"
        THEN [files |-> files, ret |-> <<>>, raised |-> "TypeError",
              path |-> <<"ScoreRank", "LLMRerank", "Done">>]
        ELSE [files |-> Put(files, PassageKey(seed, book_id, query), PassageFile(passages)),
              ret |-> passages, raised |-> None,
              path |-> <<"ScoreRank", "LLMRerank", "Done">>]

\* lines 539-592: the re-ranking after generate_text gave text: the files left,
\* what the request returns and the exception caught at line 590. A text
\* without JSON gives the top chunks as they are; the slice of line 552 or the
\* test of line 553 on a value that is no list of objects raises TypeError
RerankResult(seed, files, book_id, query, max_passages, text) ==
    LET parsed == JsonLoads(text)
        top_chunks == TopChunks(book_id, query, max_passages)
        ranked == SubSeq(parsed.value, 1, IF max_passages <= Len(parsed.value)
                                          THEN max_passages ELSE Len(parsed.value))
        passages == RankedPassages(book_id, ranked, top_chunks)
    IN  IF parsed.raised # None
        THEN [files |-> files, ret |-> LexicalPassages(book_id, top_chunks, max_passages),
              raised |-> None,
              path |-> <<"ScoreRank", "LLMRerank", "LexicalFallback", "Done">>]
        ELSE IF parsed.kind # "objects"
        THEN [files |-> files, ret |-> <<>>, raised |-> "TypeError",
              path |-> <<"ScoreRank", "LLMRerank", "Done">>]
        ELSE [files |-> Put(files, PassageKey(seed, book_id, query), PassageFile(passages)),
              ret |-> passages, raised |-> None,
              path |-> <<"ScoreRank", "LLMRerank", "Done">>]

\* the values of max_passages the callers pass (lines 621 and 625)
MaxPassagesArgs == {3, 2}

\* the first run of the server: no file in the cache directory, no request
\* under way
RagStart ==
    [seed |-> 1, files |-> Empty, reqs |-> [t \in Threads |-> [pc |-> "idle"]],
     ins |-> [t \in Threads |-> [pc |-> "idle"]]]

\* everything but the retriever, the Groq cache and the budget
rag_frame == <<now, limits, callers, enabled, last, written, threads, chunker>>

\* the history after a call of generate_text with this trace; the retriever's
\* calls are counted up to MaxCalls
HistAfterGenerate(h, t, trace) ==
    LET after == HistAfterRequest(h, "groq", t, trace)
    IN  [n \in DOMAIN after |->
            [after[n] EXCEPT !.calls = IF @ > MaxCalls THEN MaxCalls ELSE @]]

\* the state generate_text starts from
LlmState == [cache |-> cache, usage |-> api_usage, file |-> usage_file]

\* the retriever once the request of thread t has gone through lines 349-411
\* with result r
AfterLookup(t, r, book_id, query, max_passages) ==
    [rag EXCEPT !.files = r.files,
                !.reqs[t] =
                    [pc |-> r.pc, book_id |-> book_id, query |-> query,
                     max_passages |-> max_passages, trace |-> r.trace, ret |-> r.ret,
                     raised |-> None, reranked |-> None, path |-> r.path]]

\* lines 349-411 of a request of thread t
Extract_Lookup(t, book_id, query, max_passages, chroma) ==
    /\ rag.reqs[t].pc = "idle"
    /\ rag.ins[t].pc = "idle"
    /\ \E r \in {LookupResult(rag.seed, rag.files, book_id, query, max_passages, chroma)} :
          rag' = AfterLookup(t, r, book_id, query, max_passages)
    /\ UNCHANGED <<api_usage, usage_file, cache, hist, rag_frame>>

\* lines 417-450 of a request of thread t
Extract_Fallback(t) ==
    /\ rag.reqs[t].pc = "fallback"
    /\ \E req \in {rag.reqs[t]} :
          \E r \in {SecondLookupResult(rag.seed, rag.files, req.book_id, req.query)} :
              rag' = [rag EXCEPT !.reqs[t] =
                         [req EXCEPT !.pc = r.pc, !.trace = @ \o r.trace, !.ret = r.ret,
                                     !.path = @ \o r.path]]
    /\ UNCHANGED <<api_usage, usage_file, cache, hist, rag_frame>>

\* lines 452-497 of a request of thread t
Extract_Direct(t, behaviour) ==
    /\ rag.reqs[t].pc = "direct"
    /\ \E req \in {rag.reqs[t]} :
          \E g \in {GenerateText(LlmState, enabled, limits, now,
                                 DirectPrompt(req.book_id, req.query), behaviour)} :
              \E r \in {DirectResult(rag.seed, rag.files, req.book_id, req.query, req.max_passages,
                                     g.text)} :
                  /\ rag' = [rag EXCEPT !.files = r.files,
                             !.reqs[t] =
                                 [req EXCEPT !.pc = r.pc, !.trace = @ \o g.trace,
                                             !.ret = r.ret, !.raised = r.raised,
                                             !.path = @ \o r.path]]
                  /\ cache' = g.cache
                  /\ api_usage' = g.usage
                  /\ usage_file' = g.file
                  /\ hist' = HistAfterGenerate(hist, now, g.trace)
    /\ UNCHANGED rag_frame

\* lines 499-592 of a request of thread t
Extract_Rerank(t, behaviour) ==
    /\ rag.reqs[t].pc = "rerank"
    /\ \E req \in {rag.reqs[t]} :
          \E top_chunks \in {TopChunks(req.book_id, req.query, req.max_passages)} :
              \E g \in {GenerateText(LlmState, enabled, limits, now,
                                     RerankPrompt(req.book_id, req.query, Len(top_chunks)),
                                     behaviour)} :
                  \E r \in {RerankResult(rag.seed, rag.files, req.book_id, req.query,
                                         req.max_passages, g.text)} :
                      /\ rag' = [rag EXCEPT !.files = r.files,
                                 !.reqs[t] =
                                     [req EXCEPT !.pc = "done", !.trace = @ \o g.trace,
                                                 !.ret = r.ret, !.raised = r.raised,
                                                 !.reranked = g.text,
                                                 !.path = @ \o r.path]]
                      /\ cache' = g.cache
                      /\ api_usage' = g.usage
                      /\ usage_file' = g.file
                      /\ hist' = HistAfterGenerate(hist, now, g.trace)
    /\ UNCHANGED rag_frame

----------------------------------------------------------------------------
(* RAGSystem.generate_book_insight (rag_system.py lines 594-680).  A request *)
(* looks its cache file up, calls _extract_relevant_passages for the book    *)
(* asked for or for every book in turn, and asks the LLM for the insight.    *)

\* the book_id arguments: None asks for all books
InsightArgs == {None, "one", "nobook"}

\* lines 606-607: the cache file of a query and a book argument
InsightKey(seed, query, book_id) ==
    Hash(seed, query) \o "_" \o (IF book_id = None THEN "all" ELSE book_id) \o "_insight"

\* lines 619-626: the calls of _extract_relevant_passages to make
ExtractCalls(book_id) ==
    IF book_id # None
    THEN <<[book_id |-> book_id, max_passages |-> 3]>>
    ELSE [i \in 1..Len(Books) |-> [book_id |-> Books[i], max_passages |-> 2]]

\* lines 605-617: the look-up of the cache file: the request after it
InsightLookupResult(seed, files, query, book_id) ==
    LET key == InsightKey(seed, query, book_id)
    IN  IF Readable(files, key)
        THEN [pc |-> "done", query |-> query, book_id |-> book_id, todo |-> <<>>,
              all_passages |-> <<>>, ret |-> <<files[key]>>, raised |-> None,
              trace |-> <<"cache_hit">>]
        ELSE [pc |-> "extract", query |-> query, book_id |-> book_id,
              todo |-> ExtractCalls(book_id), all_passages |-> <<>>, ret |-> <<>>,
              raised |-> None, trace |-> <<>>]

\* mutant: every passage found is kept
TopPassages_KeepsAll(book_id, all_passages) == all_passages

\* line 630: the first five passages when all books were asked
TopPassages(book_id, all_passages) ==
    IF book_id # None THEN all_passages
    ELSE SubSeq(all_passages, 1, IF Len(all_passages) < 5 THEN Len(all_passages) ELSE 5)

\* lines 633-637: the result when no passage was found
NoInsight(query) ==
    [query |-> query,
     insight |-> "No relevant insights found for query: '" \o query \o "'",
     sources |-> <<>>]

\* lines 641-643: the context of the prompt, abridged: each passage stands in
\* it with its book, the last digit of its length and its first character
RECURSIVE Context(_)
Context(passages) ==
    IF passages = <<>> THEN ""
    ELSE " [" \o Head(passages).book_id \o ":"
              \o Numeral(Len(Head(passages).text) % 10) \o Head(passages).text[1] \o "]"
              \o Context(Tail(passages))

\* lines 646-655: the prompt
InsightPrompt(query, passages) == "insight on " \o query \o " from" \o Context(passages)

\* line 666: the snippet of a passage
Snippet(text) ==
    IF Len(text) > 150 THEN SubSeq(text, 1, 150) \o <<".", ".", ".">> ELSE text

\* lines 660-668: the sources
Sources(passages) ==
    [i \in 1..Len(passages) |->
        [book_id |-> passages[i].book_id, snippet |-> Snippet(passages[i].text)]]

\* mutant: the LLM is asked whatever was found
InsightPlan_AlwaysGenerates(passages) ==
    IF \E i \in 1..Len(passages) : "text" \notin DOMAIN passages[i]
    THEN "KeyError"
    ELSE "generate"

\* lines 632-643: what the request does with the passages found: it returns the
\* fixed result ("none"), passage['text'] raises KeyError at line 643, or the
\* LLM is asked ("generate")
InsightPlan(passages) ==
    IF passages = <<>> THEN "none"
    ELSE IF \E i \in 1..Len(passages) : "text" \notin DOMAIN passages[i]
    THEN "KeyError"
    ELSE "generate"

\* what the storage does to the write of line 677
InsightIo == {"ok", "open_fails"}

\* lines 657-680 once generate_text gave text: the files left, the result
\* returned and the exception that leaves the function (open() of line 677 is
\* in no try block)
InsightResult(seed, files, query, book_id, passages, text, io) ==
    LET result == [query |-> query, insight |-> text, sources |-> Sources(passages)]
    IN  IF io = "open_fails"
        THEN [files |-> files, ret |-> <<>>, raised |-> "IOError"]
        ELSE [files |-> Put(files, InsightKey(seed, query, book_id), result),
              ret |-> <<result>>, raised |-> None]

\* lines 605-617 of a request of thread t
Insight_Lookup(t, query, book_id) ==
    /\ rag.ins[t].pc = "idle"
    /\ rag.reqs[t].pc = "idle"
    /\ rag' = [rag EXCEPT !.ins[t] = InsightLookupResult(rag.seed, rag.files, query, book_id)]
    /\ UNCHANGED <<api_usage, usage_file, cache, hist, rag_frame>>

\* lines 621 / 625: the next call of _extract_relevant_passages, up to line 411
Insight_Extract(t, chroma) ==
    /\ rag.ins[t].pc = "extract"
    /\ rag.ins[t].todo # <<>>
    /\ rag.reqs[t].pc = "idle"
    /\ \E ins \in {rag.ins[t]} :
          \E call \in {Head(ins.todo)} :
              \E r \in {LookupResult(rag.seed, rag.files, call.book_id, ins.query,
                                     call.max_passages, chroma)} :
                  rag' = [AfterLookup(t, r, call.book_id, ins.query, call.max_passages)
                             EXCEPT !.ins[t].todo = Tail(@)]
    /\ UNCHANGED <<api_usage, usage_file, cache, hist, rag_frame>>

\* lines 621 / 625-626: the call returns and its passages are taken
Insight_Collect(t) ==
    /\ rag.ins[t].pc = "extract"
    /\ rag.reqs[t].pc = "done"
    /\ rag' = [rag EXCEPT !.reqs[t] = [pc |-> "idle"],
                          !.ins[t].all_passages = @ \o rag.reqs[t].ret]
    /\ UNCHANGED <<api_usage, usage_file, cache, hist, rag_frame>>

\* lines 628-680 of a request of thread t
Insight_Generate(t, behaviour, io) ==
    /\ rag.ins[t].pc = "extract"
    /\ rag.ins[t].todo = <<>>
    /\ rag.reqs[t].pc = "idle"
    /\ \E ins \in {rag.ins[t]} :
        \E passages \in {TopPassages(ins.book_id, ins.all_passages)} :
          \E plan \in {InsightPlan(passages)} :
            IF plan = "none"
            THEN /\ rag' = [rag EXCEPT !.ins[t] =
                               [ins EXCEPT !.pc = "done", !.ret = <<NoInsight(ins.query)>>]]
                 /\ UNCHANGED <<api_usage, usage_file, cache, hist>>
            ELSE IF plan = "KeyError"
            THEN /\ rag' = [rag EXCEPT !.ins[t] =
                               [ins EXCEPT !.pc = "done", !.raised = "KeyError"]]
                 /\ UNCHANGED <<api_usage, usage_file, cache, hist>>
            ELSE \E g \in {GenerateText(LlmState, enabled, limits, now,
                                        InsightPrompt(ins.query, passages), behaviour)} :
                   \E r \in {InsightResult(rag.seed, rag.files, ins.query, ins.book_id,
                                           passages, g.text, io)} :
                     /\ rag' = [rag EXCEPT !.files = r.files,
                                           !.ins[t] = [ins EXCEPT !.pc = "done",
                                                                  !.ret = r.ret,
                                                                  !.raised = r.raised,
                                                                  !.trace = @ \o g.trace]]
                     /\ cache' = g.cache
                     /\ api_usage' = g.usage
                     /\ usage_file' = g.file
                     /\ hist' = HistAfterGenerate(hist, now, g.trace)
    /\ UNCHANGED rag_frame

\* the request of thread t is over: its result or its exception is with the
\* caller
Insight_Return(t) ==
    /\ rag.ins[t].pc = "done"
    /\ rag' = [rag EXCEPT !.ins[t] = [pc |-> "idle"]]
    /\ UNCHANGED <<api_usage, usage_file, cache, hist, rag_frame>>

----------------------------------------------------------------------------
(* The clock *)

OnGrid(t) ==
    /\ t \div one_day_seconds <= MaxDays
    /\ (t % one_day_seconds) \div CACHE_EXPIRY_SECONDS <= MaxHours
    /\ (t % one_day_seconds) % CACHE_EXPIRY_SECONDS <= MaxSecs

Tick(d) ==
    /\ OnGrid(now + d)
    /\ now' = now + d
    /\ UNCHANGED <<limits, callers, enabled, api_usage, usage_file, cache, last, hist, written, threads, chunker, rag>>

----------------------------------------------------------------------------
(* __init__ *)

\* a new CacheManager over the same cache directory
NewCacheManager ==
    /\ api_usage' = LoadApiUsage(DefaultUsage(now), usage_file)
    /\ last' = [op |-> "restart", arg |-> "", ret |-> TRUE]
    /\ hist' = IF usage_file = <<>>
               THEN [n \in DOMAIN hist |-> [hist[n] EXCEPT !.start = now]]
               ELSE hist

\* a new process of a program that uses the CacheManager alone
Restart ==
    /\ NewCacheManager
    /\ UNCHANGED <<now, limits, callers, enabled, usage_file, cache, written, threads, chunker, rag>>

\* a new process of the server: a new CacheManager and a new RAGSystem over the
\* same cache directories, and the seed of hash() this run drew; the requests
\* of the old process are gone
RestartServer(seed) ==
    /\ NewCacheManager
    /\ rag' = [RagStart EXCEPT !.seed = seed, !.files = rag.files]
    /\ UNCHANGED <<now, limits, callers, enabled, usage_file, cache, written, threads, chunker>>

\* CacheManager.__init__ on an empty cache directory
InitCacheManager ==
    /\ now = 0
    /\ limits \in [{"tavily", "groq"} -> 1..MaxLimit]
    /\ callers \in CallerSets
    /\ enabled \in BOOLEAN
    /\ api_usage = DefaultUsage(0)
    /\ usage_file = <<>>
    /\ cache = Empty
    /\ last = [op |-> "init", arg |-> "", ret |-> TRUE]
    /\ hist = [n \in {"tavily", "groq"} |-> [start |-> 0, calls |-> 0, granted |-> 0]]
    /\ written = Empty
    /\ threads = [t \in 1..NThreads |-> [pc |-> "idle"]]

\* no book is being chunked and no passage is asked for
Init ==
    /\ InitCacheManager
    /\ chunker = [ChunkStart(<<>>, max_chunk_length) EXCEPT !.done = TRUE]
    /\ rag = RagStart

\* the chunker alone, on every sequence of at most MaxParagraphs paragraphs
InitChunk ==
    /\ InitCacheManager
    /\ callers = {"groq", "serp"}
    /\ limits = [n \in {"tavily", "groq"} |-> 1]
    /\ enabled
    /\ rag = RagStart
    /\ \E M \in {max_chunk_length, max_chunk_length_books} :
         \E n \in 0..MaxParagraphs :
            \E paragraphs \in [1..n -> ParagraphTexts(M)] :
                chunker = ChunkStart(paragraphs, M)

\* the retriever: requests of the server's threads over one cache directory and
\* one budget
InitRag ==
    /\ InitCacheManager
    /\ callers = {"groq", "serp"}
    /\ limits = [tavily |-> 1, groq |-> MaxLimit]
    /\ enabled
    /\ chunker = [ChunkStart(<<>>, max_chunk_length) EXCEPT !.done = TRUE]
    /\ rag = RagStart

NextRag ==
    \/ \E t \in Threads, b \in BookArgs, q \in Queries, m \in MaxPassagesArgs,
          chroma \in ChromaOutcomes : Extract_Lookup(t, b, q, m, chroma)
    \/ \E t \in Threads : Extract_Fallback(t)
    \/ \E t \in Threads, behaviour \in LlmBehaviours : Extract_Direct(t, behaviour)
    \/ \E t \in Threads, behaviour \in LlmBehaviours : Extract_Rerank(t, behaviour)

SpecRag == InitRag /\ [][NextRag]_vars

\* the server answering one request at a time, in thread 1, with the response
\* cache of the clients switched off (CACHE_ENABLED)
MainThread == 1

\* what the LLM answers there: the list of objects, the list whose object lacks
\* members, or an exception
InsightBehaviours == {ReplyObjects, ReplyNoText, "raise"}

\* what the collection does there
InsightChroma == {"empty", "results"}

InitInsight ==
    /\ InitCacheManager
    /\ callers = {"groq", "serp"}
    /\ limits = [tavily |-> 1, groq |-> MaxLimit]
    /\ ~enabled
    /\ chunker = [ChunkStart(<<>>, max_chunk_length) EXCEPT !.done = TRUE]
    /\ rag = RagStart

NextInsight ==
    \/ \E q \in Queries, b \in InsightArgs : Insight_Lookup(MainThread, q, b)
    \/ \E chroma \in InsightChroma : Insight_Extract(MainThread, chroma)
    \/ Extract_Fallback(MainThread)
    \/ \E behaviour \in InsightBehaviours : Extract_Direct(MainThread, behaviour)
    \/ \E behaviour \in InsightBehaviours : Extract_Rerank(MainThread, behaviour)
    \/ Insight_Collect(MainThread)
    \/ \E behaviour \in InsightBehaviours, io \in InsightIo :
          Insight_Generate(MainThread, behaviour, io)
    \/ Insight_Return(MainThread)

SpecInsight == InitInsight /\ [][NextInsight]_vars

\* the same, every call of _extract_relevant_passages going on until it returns
SpecInsightFair ==
    /\ SpecInsight
    /\ WF_vars(Extract_Fallback(MainThread))
    /\ WF_vars(\E behaviour \in InsightBehaviours : Extract_Direct(MainThread, behaviour))
    /\ WF_vars(\E behaviour \in InsightBehaviours : Extract_Rerank(MainThread, behaviour))

\* the server over several runs: requests for the insight of one book, answered
\* by the similarity tier and the LLM, and restarts
NextRestart ==
    \/ \E q \in Queries, b \in {"one", "nobook"} : Insight_Lookup(MainThread, q, b)
    \/ Insight_Extract(MainThread, "results")
    \/ Insight_Collect(MainThread)
    \/ \E behaviour \in {ReplyProse, "raise"}, io \in InsightIo :
          Insight_Generate(MainThread, behaviour, io)
    \/ Insight_Return(MainThread)
    \/ \E seed \in HashSeeds : RestartServer(seed)

SpecRestart == InitInsight /\ [][NextRestart]_vars

NextChunk ==
    \/ ChunkStep
    \/ ChunkFinish

SpecChunk == InitChunk /\ [][NextChunk]_vars

\* the budget gate alone: caching on
InitBudget ==
    /\ Init
    /\ enabled

NextBudget ==
    \/ \E d \in {1, one_day_seconds} : Tick(d)
    \/ \E n \in callers : TrackApiCall(n)
    \/ Restart
    \/ GetApiUsageStats

SpecBudget == InitBudget /\ [][NextBudget]_vars

\* the cache alone: the budget gate is not called
InitCache ==
    /\ Init
    /\ callers = {"groq", "serp"}
    /\ limits = [n \in {"tavily", "groq"} |-> 1]

NextCache ==
    \/ \E d \in {1, CACHE_EXPIRY_SECONDS} : Tick(d)
    \/ \E k \in Keys : Get(k)
    \/ \E k \in Keys, v \in Payloads, ttl \in TtlArgs : Set(k, v, ttl)
    \/ \E k \in Keys : Clear(k)
    \/ ClearAll

SpecCache == InitCache /\ [][NextCache]_vars

\* the cache over a storage whose writes can fail; one of the keys is empty
StoreKeys == {"", "y"}

InitStore ==
    /\ Init
    /\ callers = {"groq", "serp"}
    /\ limits = [n \in {"tavily", "groq"} |-> 1]

NextStore ==
    \/ \E d \in {1, CACHE_EXPIRY_SECONDS} : Tick(d)
    \/ \E k \in StoreKeys : Get(k)
    \/ \E k \in StoreKeys, v \in Payloads, io \in SetIo : SetUnder(k, v, <<>>, io)
    \/ \E k \in StoreKeys : Clear(k)
    \/ ClearAll

SpecStore == InitStore /\ [][NextStore]_vars

\* the cache over files that get damaged
InitCorrupt ==
    /\ InitStore
    /\ enabled

NextCorrupt ==
    \/ \E d \in {1, CACHE_EXPIRY_SECONDS} : Tick(d)
    \/ \E k \in Keys : Get(k)
    \/ \E k \in Keys, v \in Payloads : Set(k, v, <<>>)
    \/ \E k \in Keys, form \in CorruptForms : Corrupt(k, form)

SpecCorrupt == InitCorrupt /\ [][NextCorrupt]_vars

\* every operation of one CacheManager, on one key and one payload
InitManager ==
    /\ Init
    /\ callers = {"groq", "serp"}
    /\ limits["tavily"] = 1

NextManager ==
    \/ \E d \in {1, one_day_seconds} : Tick(d)
    \/ \E n \in callers : TrackApiCall(n)
    \/ Restart
    \/ Get("x")
    \/ Set("x", "v1", <<>>)
    \/ Clear("x")
    \/ ClearAll

SpecManager == InitManager /\ [][NextManager]_vars

\* every operation of the CacheManager, called by one caller at a time, over
\* windows that roll over
InitLifetime ==
    /\ InitManager
    /\ enabled

NextLifetime ==
    \/ Tick(one_day_seconds + 1)
    \/ \E n \in callers : TrackApiCall(n)
    \/ Restart
    \/ GetApiUsageStats
    \/ Get("x")
    \/ Set("x", "v1", <<>>)
    \/ Clear("x")
    \/ ClearAll

SpecLifetime == InitLifetime /\ [][NextLifetime]_vars

\* the CacheManager with caching disabled (CACHE_ENABLED false)
InitDisabled ==
    /\ InitManager
    /\ ~enabled

NextDisabled ==
    \/ Tick(one_day_seconds + 1)
    \/ \E n \in callers : TrackApiCall(n)
    \/ \E k \in Keys : Get(k)
    \/ \E k \in Keys, v \in Payloads : Set(k, v, <<>>)

SpecDisabled == InitDisabled /\ [][NextDisabled]_vars

\* callers that write the name of one api in two ways, within one window
GroqSpellings == {"groq", "Groq"}

InitSpellings ==
    /\ InitBudget
    /\ callers = {"groq", "serp"}

NextSpellings ==
    \/ Tick(1)
    \/ \E n \in GroqSpellings : TrackApiCall(n)
    \/ Restart
    \/ GetApiUsageStats

SpecSpellings == InitSpellings /\ [][NextSpellings]_vars

\* the two clients over one CacheManager, both apis with the same daily limit
InitClient ==
    /\ Init
    /\ callers = {"groq", "serp"}
    /\ limits["tavily"] = limits["groq"]

\* the arguments and collaborators of a chat_completion call: a client without
\* api key or llm is tried with one request
ChatCalls ==
    {a \in [stream : BOOLEAN, api_key : BOOLEAN, llm : BOOLEAN, outcome : {"ok", "raise"}] :
        (~a.api_key \/ ~a.llm) => (a.api_key # a.llm /\ ~a.stream /\ a.outcome = "ok")}

\* the collaborators of a _make_request call
SearchCalls ==
    {a \in [api_key : BOOLEAN, outcome : {"ok", "error_body", "raise"}] :
        ~a.api_key => a.outcome = "ok"}

NextClient ==
    \/ \E d \in {1, one_day_seconds} : Tick(d)
    \/ \E m \in Messages, a \in ChatCalls :
            ChatCompletion(m, a.stream, a.api_key, a.llm, a.outcome)
    \/ \E q \in Params, a \in SearchCalls :
            MakeRequest("search", q, a.api_key, a.outcome)

SpecClient == InitClient /\ [][NextClient]_vars

\* concurrent callers of set, one call each, and gets between them
InitRace ==
    /\ Init
    /\ callers = {"groq", "serp"}
    /\ limits = [n \in {"tavily", "groq"} |-> 1]
    /\ enabled

NextRace ==
    \/ \E t \in Threads, key \in Keys, data \in Payloads : S_Open(t, key, data)
    \/ \E t \in Threads : S_Dump(t)
    \/ \E key \in Keys : S_Get(key)

SpecRace == InitRace /\ [][NextRace]_vars

\* concurrent callers of track_api_call within one window, one call each
NextConc ==
    \/ \E t \in Threads, n \in callers : T_Begin(t, n)
    \/ \E t \in Threads : T_Check(t)
    \/ \E t \in Threads : T_ReadCount(t)
    \/ \E t \in Threads : T_WriteCount(t)
    \/ \E t \in Threads : T_Save(t)

SpecConc == InitBudget /\ [][NextConc]_vars

----------------------------------------------------------------------------
(* Properties of the budget gate *)

\* the last operation was track_api_call for a name with a configured limit
LastTrackLimited ==
    /\ last.op = "track_api_call"
    /\ HasRateLimit(last.arg)

\* C1: for an api_name with limit L, the k-th call of track_api_call in a 24h
\* window returns true exactly when k <= L: the first L calls are allowed, call
\* L+1 and every later one is denied, and the first call after the window has
\* rolled over is allowed again.
C1_FirstLAllowedThenDenied ==
    LastTrackLimited =>
        (last.ret = (hist[last.arg].calls <= RateLimit(limits, last.arg)))

\* C1 witness: in a window that began after a rollover, call L+1 was denied
C1_Witness ==
    /\ LastTrackLimited
    /\ ~last.ret
    /\ hist[last.arg].calls = RateLimit(limits, last.arg) + 1
    /\ hist[last.arg].start > one_day_seconds

\* a step that is a call of track_api_call for a limited name, returning ret
TrackStep(ret) ==
    /\ hist' # hist
    /\ last'.op = "track_api_call"
    /\ last'.ret = ret

\* C7: a denied track_api_call leaves the counters and the persisted usage file
\* as they were.
C7_DeniedCallChangesNothing ==
    [][TrackStep(FALSE) => (api_usage' = api_usage /\ usage_file' = usage_file)]_vars

\* C7 witness: a call was denied while the usage file existed
C7_Witness ==
    /\ LastTrackLimited
    /\ ~last.ret
    /\ usage_file # <<>>
    /\ api_usage[last.arg].count = RateLimit(limits, last.arg)

\* C10: track_api_call for an api_name without a configured limit returns true.
C10_UnknownApiAlwaysAllowed ==
    (last.op = "track_api_call" /\ Lower(last.arg) \notin {"tavily", "groq"})
        => last.ret = TRUE

\* C10 witness: the unknown api was allowed while a limited counter was exhausted
C10_Witness ==
    /\ last.op = "track_api_call"
    /\ last.arg = "serp"
    /\ last.ret = TRUE
    /\ "serp" \in DOMAIN api_usage
    /\ api_usage["groq"].count = limits["groq"]

\* C38: with a fixed limit L and sequential callers the counter of every limited
\* api_name stays within 0..L, whatever track_api_call, get, set, clear,
\* get_api_usage_stats, the clock and restarts do.
C38_CountWithinLimit ==
    \A n \in DOMAIN api_usage :
        HasRateLimit(n) =>
            /\ 0 <= api_usage[n].count
            /\ api_usage[n].count <= RateLimit(limits, n)

\* a restart after clear() had removed the usage file found a used-up counter
\* gone, and the counter was used up again
C38_Witness ==
    /\ last.op = "track_api_call"
    /\ last.arg = "groq"
    /\ ~last.ret
    /\ api_usage["groq"].count = limits["groq"]
    /\ hist["groq"].granted > limits["groq"]

\* C39: with caching disabled get returns None for every key and set stores
\* nothing, while track_api_call enforces the limit as it does with caching
\* enabled: the first L calls of a window are allowed and the later ones denied.
C39_DisabledCacheKeepsGate ==
    ~enabled =>
        /\ cache = Empty
        /\ last.op = "get" => (last.ret = None /\ last.raised = None)
        /\ LastTrackLimited =>
               /\ last.ret = (hist[last.arg].calls <= RateLimit(limits, last.arg))
               /\ api_usage[last.arg].count <= RateLimit(limits, last.arg)

\* with caching disabled a set was called, nothing is stored, and call L+1 of
\* the window was denied
C39_Witness ==
    /\ ~enabled
    /\ written # Empty
    /\ cache = Empty
    /\ LastTrackLimited
    /\ ~last.ret
    /\ hist[last.arg].calls = RateLimit(limits, last.arg) + 1

\* the calls allowed in the current window under any of these names
GrantedUnder(names) ==
    LET RECURSIVE Sum(_)
        Sum(S) == IF S = {} THEN 0
                  ELSE LET n == CHOOSE x \in S : TRUE
                       IN  hist[n].granted + Sum(S \ {n})
    IN  Sum(names \cap DOMAIN hist)

\* C40: there is one budget per configured api whatever the letter case of the
\* name passed: the calls allowed within one window under all spellings of a
\* configured name never exceed its limit.
C40_OneBudgetPerApi ==
    \A api \in {"tavily", "groq"} :
        GrantedUnder({n \in ApiNames : Lower(n) = api}) <= limits[api]

\* count of api_name in counters u, 0 when it has no counter yet
CountOf(u, api_name) == IF api_name \in DOMAIN u THEN u[api_name].count ELSE 0

StatsStep ==
    /\ last'.op = "get_api_usage_stats"
    /\ now' = now

\* C11: get_api_usage_stats is read-only: in any state, also when a counter's
\* window has elapsed, it leaves every counter's count and last_reset and the
\* persisted usage file as they were, and the next track_api_call does what it
\* would have done without it.
C11_StatsReadOnly ==
    [][StatsStep =>
        /\ api_usage' = api_usage
        /\ usage_file' = usage_file
        /\ \A n \in ApiNames :
              TrackResult(api_usage', usage_file', limits', n, now')
                  = TrackResult(api_usage, usage_file, limits, n, now)]_vars

\* C11 witness: the statistics were read while a used counter's window had elapsed
C11_Witness ==
    /\ last.op = "get_api_usage_stats"
    /\ usage_file # <<>>
    /\ \E n \in DOMAIN api_usage :
          /\ api_usage[n].count >= 1
          /\ WindowElapsed(api_usage, n, now)
          /\ last.ret[n].count = api_usage[n].count
          /\ last.ret[n].reset_in_seconds = 0

----------------------------------------------------------------------------
(* Properties of the cache *)

\* the last operation was a get, with caching on, of a key that was set before
\* and neither set again nor cleared since
LastGetOfWritten ==
    /\ last.op = "get"
    /\ enabled
    /\ last.arg \in DOMAIN written

\* C3: after set(k, v, ttl=T) at time t0, a get(k) at time t returns v when
\* t < t0 + T and absent when t >= t0 + T.
C3_ValidUntilExpiry ==
    LastGetOfWritten =>
        LET w == written[last.arg]
        IN  last.ret = (IF last.at < w.at + TtlSeconds(w.ttl) THEN w.data ELSE None)

\* C4: set(k, v, ttl=0) followed immediately by get(k) returns absent.
C4_ZeroTtlExpiresAtOnce ==
    (LastGetOfWritten /\ written[last.arg].ttl = <<0>> /\ written[last.arg].at = last.at)
        => last.ret = None

\* C9: no cache operation (get, set, clear(key), clear()) changes the counters
\* in memory or the persisted usage file, so that a restart right after a clear
\* finds every counter that had allowed a call as it was before the clear.
C9_CountersNeverDeleted ==
    [][/\ last'.op \in {"get", "set", "clear"} =>
            (api_usage' = api_usage /\ usage_file' = usage_file)
       /\ (last.op = "clear" /\ last'.op = "restart") =>
            \A n \in DOMAIN api_usage :
                api_usage[n].count >= 1 =>
                    (n \in DOMAIN api_usage' /\ api_usage'[n] = api_usage[n])]_vars

\* a step that is a call of get
GetStep ==
    /\ last'.op = "get"
    /\ now' = now

\* C12: get(k) returns the cached payload exactly when an entry for k exists
\* and is unexpired (now < expires_at), otherwise absent, and never raises; an
\* entry it finds expired is deleted.
C12_GetReturnsUnexpired ==
    [][GetStep =>
        LET k == last'.arg
            exists == k \in DOMAIN cache
        IN  /\ last'.raised = None
            /\ last'.ret = (IF exists /\ now < cache[k].expires_at
                            THEN cache[k].data ELSE None)
            /\ (exists /\ ~(now < cache[k].expires_at)) => k \notin DOMAIN cache']_vars

\* C28: every entry set writes, whatever ttl it is given, expires after it was
\* created (expires_at > cached_at), and get takes an entry for valid exactly
\* when now < expires_at.
C28_ExpiryAfterCreation ==
    [][/\ \A k \in DOMAIN cache' :
            ~IsCorrupt(cache'[k]) => cache'[k].expires_at > cache'[k].cached_at
       /\ (GetStep /\ enabled /\ last'.arg \in DOMAIN cache /\ ~IsCorrupt(cache[last'.arg]))
            => ((last'.ret # None) <=> (now < cache[last'.arg].expires_at))]_vars

\* C13: get(k) on a corrupted stored entry, whatever the form of the
\* corruption, returns absent and raises nothing.
C13_CorruptEntryIsMiss ==
    [][(GetStep /\ last'.arg \in DOMAIN cache /\ IsCorrupt(cache[last'.arg])) =>
        (last'.ret = None /\ last'.raised = None)]_vars

\* C14: a set whose write fails returns normally, and every get returns absent
\* or the payload of the last set of its key that was written completely, and
\* raises nothing.
C14_FailedSetIsSwallowed ==
    /\ last.op = "set" => last.raised = None
    /\ last.op = "get" =>
          /\ last.raised = None
          /\ \/ last.ret = None
             \/ /\ last.arg \in DOMAIN written
                /\ last.ret = written[last.arg].data

\* C14 witness: get returned absent for a key whose file a failed write has
\* left truncated
C14_Witness ==
    /\ last.op = "get"
    /\ last.ret = None
    /\ last.arg \in DOMAIN cache
    /\ IsCorrupt(cache[last.arg])
    /\ \E k \in DOMAIN written : k # last.arg

\* a step that is a call of clear
ClearStep ==
    /\ last'.op = "clear"
    /\ now' = now

\* C15: clear(k) with a key removes the entry of k and leaves the entry of
\* every other key as it was; clear() without a key removes every entry.
C15_ClearRemovesExactly ==
    [][ClearStep =>
        IF last'.arg = None
        THEN \A k \in StoreKeys : GetResult(cache', enabled, k, now).ret = None
        ELSE /\ GetResult(cache', enabled, last'.arg, now).ret = None
             /\ \A k \in StoreKeys \ {last'.arg} :
                   /\ k \in DOMAIN cache <=> k \in DOMAIN cache'
                   /\ k \in DOMAIN cache => cache'[k] = cache[k]]_vars

----------------------------------------------------------------------------
(* Properties of the chunker *)

\* C19: for every sequence of paragraphs and the maximum chunk length M, every
\* chunk has at most M characters, the separators between merged paragraphs
\* counted, and no chunk is empty.
C19_ChunksWithinMaximum ==
    chunker.done =>
        \A j \in 1..Len(chunker.chunks) :
            /\ Len(chunker.chunks[j]) <= chunker.max_chunk_length
            /\ Len(chunker.chunks[j]) > 0

\* the least element of a set of numbers
Min(S) == CHOOSE x \in S : \A y \in S : x <= y

\* the paragraphs of a chunk: its text cut at every "\n\n"
RECURSIVE SplitParagraphs(_)
SplitParagraphs(text) ==
    LET cuts == {i \in 1..(Len(text) - 1) : text[i] = "\n" /\ text[i + 1] = "\n"}
    IN  IF cuts = {} THEN <<text>>
        ELSE <<SubSeq(text, 1, Min(cuts) - 1)>>
                 \o SplitParagraphs(SubSeq(text, Min(cuts) + 2, Len(text)))

\* the paragraphs of a sequence of chunks, in order
RECURSIVE ParagraphsOf(_)
ParagraphsOf(chunks) ==
    IF chunks = <<>> THEN <<>>
    ELSE SplitParagraphs(Head(chunks)) \o ParagraphsOf(Tail(chunks))

\* C20: the chunks are a function of the paragraph sequence alone, and the
\* paragraphs of the chunks, taken in chunk order, are the paragraph sequence:
\* none dropped, none twice, none out of place.
C20_ChunkingKeepsParagraphs ==
    chunker.done =>
        /\ chunker.chunks = ChunkAll(chunker.paragraphs, chunker.max_chunk_length)
        /\ ParagraphsOf(chunker.chunks) = chunker.paragraphs

\* C20 witness: three paragraphs ended in two chunks, one of them merged
C20_Witness ==
    /\ chunker.done
    /\ Len(chunker.paragraphs) = 3
    /\ Len(chunker.chunks) = 2
    /\ chunker.paragraphs[1] # chunker.paragraphs[2]
    /\ chunker.paragraphs[2] # chunker.paragraphs[3]

----------------------------------------------------------------------------
(* Properties of the retriever *)

\* how often a request did this
Occurrences(trace, event) == Cardinality({i \in 1..Len(trace) : trace[i] = event})

\* the requests under way or finished
Requests == {rag.reqs[t] : t \in {u \in Threads : rag.reqs[u].pc # "idle"}}

\* C16: an invocation of _extract_relevant_passages calls the upstream LLM at
\* most once and queries the embedding collection at most once, on every path.
C16_AtMostOneLlmCall ==
    \A req \in Requests :
        /\ Occurrences(req.trace, "upstream") <= 1
        /\ Occurrences(req.trace, "embed") <= 1

\* a step that starts a request of thread t
LookupStep(t) == rag.reqs[t].pc = "idle" /\ rag'.reqs[t].pc # "idle"

C18_UnparsedRankingGivesLexical ==
    \A req \in Requests :
        (req.pc = "done" /\ req.reranked # None
                        /\ JsonLoads(req.reranked).kind # "objects") =>
            LET top_chunks == TopChunks(req.book_id, req.query, req.max_passages)
            IN  /\ req.raised = None
                /\ Len(req.ret) = Min({req.max_passages, Len(top_chunks)})
                /\ \A i \in 1..Len(req.ret) : req.ret[i].text = top_chunks[i][3]

\* the requests answered by the lexical fallback of lines 577-588
LexicalRequests ==
    {req \in Requests : /\ req.pc = "done"
                        /\ req.reranked # None
                        /\ JsonLoads(req.reranked).raised # None}

\* the number of query terms the chunk with this text holds (line 507)
OverlapOf(req, text) ==
    LET scored == ScoredChunks[req.book_id][req.query]
    IN  scored[CHOOSE n \in 1..Len(scored) : scored[n][3] = text][1]

\* the passages of req are ranked by the number of query terms they hold: none
\* comes before one that holds more terms, and no chunk left out holds more
\* terms than one returned
RankedByOverlap(req) ==
    \A scored \in {SubSeq(ScoredChunks[req.book_id][req.query], 1,
                          Len(BookChunks[req.book_id]))} :
        \A at \in {SubSeq([i \in 1..Len(req.ret) |->
                                CHOOSE n \in 1..Len(scored) : scored[n][3] = req.ret[i].text],
                            1, Len(req.ret))} :
            /\ \A i \in 1..Len(at) : \A j \in i..Len(at) : scored[at[i]][1] >= scored[at[j]][1]
            /\ \A n \in 1..Len(scored) :
                   (\A i \in 1..Len(at) : req.ret[i].text # scored[n][3])
                   => \A i \in 1..Len(at) : scored[n][1] <= scored[at[i]][1]

\* the request of thread t returns from the lexical fallback
LexicalStep(t) ==
    /\ rag.reqs[t].pc # "done"
    /\ rag'.reqs[t].pc = "done"
    /\ Len(rag'.reqs[t].path) >= 2
    /\ rag'.reqs[t].path[Len(rag'.reqs[t].path) - 1] = "LexicalFallback"

\* C21: the lexical ranking is monotonic in the number of query terms a chunk
\* holds: in what the lexical fallback returns no passage comes before one that
\* holds more terms, and no chunk left out holds more terms than one returned,
\* wherever the chunks stand in the document.
C21_LexicalRankingMonotonic ==
    [][\A t \in Threads : LexicalStep(t) => RankedByOverlap(rag'.reqs[t])]_vars

\* the lexical fallback returned a chunk with both terms before one with one
\* term and left out a chunk with none, the chunk with both terms standing
\* second in the document
C21_Witness ==
    \E req \in LexicalRequests :
        /\ req.book_id = "small"
        /\ Len(req.ret) >= 2
        /\ OverlapOf(req, req.ret[1].text) = 2
        /\ OverlapOf(req, req.ret[2].text) = 1
        /\ req.ret[1].text = BookChunks["small"][2]
        /\ \E n \in 1..Len(BookChunks["small"]) :
              /\ Score(BookChunks["small"][n], QueryKeywords(req.query)) = 0
              /\ \A i \in 1..Len(req.ret) : req.ret[i].text # BookChunks["small"][n]

\* the requests that returned passages they did not read from the cache file
ComputedRequests ==
    {req \in Requests : /\ req.pc = "done"
                        /\ Len(req.ret) > 0
                        /\ Occurrences(req.trace, "cache_hit") = 0}

\* C23: a request that missed the cache and returns passages has stored the list
\* it returns under the key of its book and query: the file is there, readable,
\* and holds that list, so that the same request made next returns it.
C23_ReturnedListIsCached ==
    \A req \in ComputedRequests :
        LET key == PassageKey(rag.seed, req.book_id, req.query)
        IN  /\ Readable(rag.files, key)
            /\ rag.files[key].list = req.ret

\* C26: a request for an id that is no book's returns the empty list, raises
\* nothing, makes no upstream call and writes no cache entry.
C26_UnknownBookIsLocal ==
    [][\A t \in Threads :
          LookupStep(t) /\ rag'.reqs[t].book_id \notin BookIds
          => /\ rag'.reqs[t].pc = "done"
             /\ rag'.reqs[t].ret = <<>>
             /\ rag'.reqs[t].raised = None
             /\ rag'.reqs[t].trace = <<>>
             /\ rag'.files = rag.files
             /\ cache' = cache
             /\ api_usage' = api_usage
             /\ usage_file' = usage_file]_vars

\* a request for an unknown id has returned while a passage file of a book exists
C26_Witness ==
    /\ \E req \in Requests : req.pc = "done" /\ req.book_id \notin BookIds
    /\ rag.files # Empty

\* C22: a request never returns more passages than its book has chunks.
C22_PassagesWithinChunks ==
    \A req \in Requests :
        (req.pc = "done" /\ req.book_id \in BookIds) =>
            Len(req.ret) <= Len(BookChunks[req.book_id])

\* the texts generate_text gives for an error result of chat_completion
ErrorTexts == {"Error: " \o e : e \in {ErrApiKey, ErrLlm, ErrRateLimit, ErrUpstream}}

\* C24: no cache holds an error result or a result of a denied call: no entry
\* of the response cache and no insight file.
C24_NoErrorIsCached ==
    /\ \A k \in DOMAIN cache : ~IsCorrupt(cache[k]) => ~HasErrorMember(cache[k].data)
    /\ \A k \in DOMAIN rag.files :
          "insight" \in DOMAIN rag.files[k] => rag.files[k].insight \notin ErrorTexts

\* a step that ends lines 628-680 of the request of thread t
GenerateStep(t) == rag.ins[t].pc = "extract" /\ rag'.ins[t].pc = "done"

\* C25: when no passage was found, for the book asked for or across all books,
\* generate_book_insight returns the fixed result with no source and does not
\* ask the LLM: no call of the client, the budget and the files as they were.
C25_NoPassageNoLlmCall ==
    [][\A t \in Threads :
          (GenerateStep(t) /\ TopPassages(rag.ins[t].book_id, rag.ins[t].all_passages) = <<>>)
          => /\ rag'.ins[t].ret = <<NoInsight(rag.ins[t].query)>>
             /\ rag'.ins[t].ret[1].sources = <<>>
             /\ rag'.ins[t].raised = None
             /\ rag'.ins[t].trace = <<>>
             /\ api_usage' = api_usage
             /\ usage_file' = usage_file
             /\ cache' = cache
             /\ rag'.files = rag.files]_vars

\* a book was asked, the LLM was called for its passages and none was found, and
\* the fixed result is returned
C25_Witness ==
    \E t \in Threads :
        /\ rag.ins[t].pc = "done"
        /\ rag.ins[t].book_id \in BookIds
        /\ rag.ins[t].trace = <<>>
        /\ rag.ins[t].ret = <<NoInsight(rag.ins[t].query)>>
        /\ api_usage["groq"].count >= 1

\* C27: _extract_relevant_passages and generate_book_insight return a result and
\* raise nothing, whatever the LLM, the cache files and the budget do.
C27_NothingRaisedToCaller ==
    \A t \in Threads :
        rag.ins[t].pc = "done" => (rag.ins[t].raised = None /\ Len(rag.ins[t].ret) = 1)

\* C29: the key of a cache file depends on the request alone: a request whose
\* insight file was written in some run of the server finds it.
C29_KeySurvivesRestart ==
    [][\A t \in Threads :
          (/\ rag.ins[t].pc = "idle"
           /\ rag'.ins[t].pc # "idle"
           /\ \E seed \in HashSeeds :
                 Readable(rag.files, InsightKey(seed, rag'.ins[t].query, rag'.ins[t].book_id)))
          => /\ rag'.ins[t].pc = "done"
             /\ rag'.ins[t].trace = <<"cache_hit">>]_vars

\* the stages of the state machine of a retrieval request
SpecStages ==
    {"CacheCheck", "ChunkBuild", "ScoreRank", "LLMRerank", "LexicalFallback", "Served", "Done"}

\* a path without the stages the state machine does not name
RECURSIVE Named(_)
Named(path) ==
    IF path = <<>> THEN <<>>
    ELSE IF Head(path) \in SpecStages THEN <<Head(path)>> \o Named(Tail(path))
    ELSE Named(Tail(path))

\* no stage stands twice in the path
NoStageTwice(path) ==
    \A i \in 1..Len(path) : \A j \in 1..Len(path) : path[i] = path[j] => i = j

CodePaths ==
    LET built == <<"CacheCheck", "Similarity", "ChunkBuild", "CacheCheck">>
        ranked == <<"ScoreRank", "LLMRerank">>
    IN  {<<"Done">>,
         <<"CacheCheck", "Served">>,
         <<"CacheCheck", "Similarity", "Done">>,
         built \o <<"Served">>,
         built \o <<"DirectExtract", "Done">>,
         built \o <<"DirectExtract">> \o ranked \o <<"Done">>,
         built \o <<"DirectExtract">> \o ranked \o <<"LexicalFallback", "Done">>,
         built \o ranked \o <<"Done">>,
         built \o ranked \o <<"LexicalFallback", "Done">>}

\* path is the beginning of a path of the code
OnCodePath(path) ==
    \E whole \in CodePaths :
        Len(path) <= Len(whole) /\ SubSeq(whole, 1, Len(path)) = path

Added(t) ==
    SubSeq(rag'.reqs[t].trace, Len(rag.reqs[t].trace) + 1, Len(rag'.reqs[t].trace))

\* the request of thread t goes through the re-ranking of lines 499-592
RerankStep(t) == rag.reqs[t].pc = "rerank" /\ rag'.reqs[t].pc = "done"

\* the texts of the passages
Texts(passages) == [i \in 1..Len(passages) |-> passages[i].text]

\* the texts of the first n chunks of the book in descending order of the number
\* of query terms they hold
TopTexts(book_id, query, n) ==
    LET sorted == SortedChunks[book_id][query]
    IN  [i \in 1..(IF n <= Len(sorted) THEN n ELSE Len(sorted)) |-> sorted[i][3]]

\* C31: when track_api_call('groq') denies the call of the re-ranking, the
\* request raises nothing, makes no upstream call and returns the top lexical
\* candidates: the first max_passages chunks by keyword overlap.
C31_DeniedRerankGivesLexical ==
    [][\A t \in Threads :
          (RerankStep(t) /\ Occurrences(Added(t), "track_denied") > 0)
          => /\ rag'.reqs[t].raised = None
             /\ Occurrences(Added(t), "upstream") = 0
             /\ Texts(rag'.reqs[t].ret)
                  = TopTexts(rag.reqs[t].book_id, rag.reqs[t].query, rag.reqs[t].max_passages)
             /\ rag'.files = rag.files]_vars

\* a request of the large book was denied the call of its re-ranking and
\* returned as many passages as it was asked for
C31_Witness ==
    \E req \in Requests :
        /\ req.pc = "done"
        /\ req.book_id = "large"
        /\ Occurrences(req.trace, "track_denied") > 0
        /\ Occurrences(req.trace, "upstream") = 0
        /\ Len(req.ret) = req.max_passages
        /\ req.ret[1].relevance = "Matched query keywords"

\* what a call of generate_text leaves in the trace of a request
LlmEvents == {"get", "track_allowed", "track_denied", "upstream", "set"}

\* C32: when the similarity tier gave nothing, the next tier is the lexical
\* scoring of all chunks: no request stands before or has gone through another
\* tier, no call of the LLM client precedes the scoring, and what a request
\* returns after the scoring is among the min(2 * max_passages, chunk count)
\* highest-scoring chunks.
C32_LexicalScoringComesNext ==
    \A req \in Requests :
        /\ req.pc # "direct"
        /\ Occurrences(req.path, "DirectExtract") = 0
        /\ req.pc = "rerank" => \A i \in 1..Len(req.trace) : req.trace[i] \notin LlmEvents
        /\ (req.pc = "done" /\ Occurrences(req.path, "ScoreRank") > 0) =>
               \A i \in 1..Len(req.ret) :
                   \E k \in 1..Len(TopChunks(req.book_id, req.query, req.max_passages)) :
                       req.ret[i].text = TopChunks(req.book_id, req.query, req.max_passages)[k][3]

\* line 517: the number in brackets under which the candidate at position k of
\* top_chunks is presented to the LLM: its place in the document
PresentedNumber(top_chunks, k) == top_chunks[k][2] + 1

\* the texts of the candidates the objects of a ranking name, in order: for each
\* object the candidate presented under its passage_number, if there is one
RECURSIVE NamedTexts(_, _)
NamedTexts(ranked, top_chunks) ==
    IF ranked = <<>> THEN <<>>
    ELSE LET named == {k \in 1..Len(top_chunks) :
                          /\ "passage_number" \in DOMAIN Head(ranked)
                          /\ PresentedNumber(top_chunks, k) = Head(ranked).passage_number}
         IN  (IF named = {} THEN <<>> ELSE <<top_chunks[CHOOSE k \in named : TRUE][3]>>)
             \o NamedTexts(Tail(ranked), top_chunks)

\* the requests that returned the passages of a ranking the LLM gave
RankedRequests ==
    {req \in Requests : /\ req.pc = "done"
                        /\ req.raised = None
                        /\ req.reranked # None
                        /\ JsonLoads(req.reranked).kind = "objects"}

\* C33: on the re-ranking path every returned passage is the candidate that was
\* presented to the LLM under the number the LLM returned; a number under which
\* no candidate was presented gives no passage, never another chunk.
C33_RankedPassageIsNamedCandidate ==
    \A req \in RankedRequests :
        \A top_chunks \in {TopChunks(req.book_id, req.query, req.max_passages)} :
            \A value \in {JsonLoads(req.reranked).value} :
                Texts(req.ret)
                  = NamedTexts(SubSeq(value, 1, IF req.max_passages <= Len(value)
                                                THEN req.max_passages ELSE Len(value)),
                               top_chunks)

\* C35: generate_book_insight without a book id asks every book in the order of
\* self.books with max_passages = 2, appends what each call returns, keeps the
\* first 5 passages at most, and gives one source per passage kept.
C35_AllBooksInOrderAtMostFive ==
    [][\A t \in Threads :
          /\ (rag.ins[t].pc = "idle" /\ rag'.ins[t].pc = "extract" /\ rag'.ins[t].book_id = None)
             => /\ Len(rag'.ins[t].todo) = Len(Books)
                /\ rag'.ins[t].all_passages = <<>>
          /\ (rag.ins[t].pc = "extract" /\ rag.ins[t].book_id = None)
             => /\ (rag.reqs[t].pc = "idle" /\ rag'.reqs[t].pc # "idle")
                   => /\ rag'.reqs[t].book_id = Books[Len(Books) - Len(rag.ins[t].todo) + 1]
                      /\ rag'.reqs[t].max_passages = 2
                      /\ rag'.ins[t].todo = Tail(rag.ins[t].todo)
                /\ (rag.reqs[t].pc = "done" /\ rag'.reqs[t].pc = "idle")
                   => rag'.ins[t].all_passages = rag.ins[t].all_passages \o rag.reqs[t].ret
                /\ (GenerateStep(t) /\ Len(rag'.ins[t].ret) = 1)
                   => \A all \in {rag.ins[t].all_passages} :
                        \A sources \in {rag'.ins[t].ret[1].sources} :
                          /\ rag.ins[t].todo = <<>>
                          /\ Len(sources) = Min({5, Len(all)})
                          /\ \A i \in 1..Len(sources) :
                                /\ sources[i].book_id = all[i].book_id
                                /\ sources[i].snippet = Snippet(all[i].text)]_vars

\* every book gave two passages and the insight has five sources, of the three
\* books in their order
C35_Witness ==
    \E t \in Threads :
        /\ rag.ins[t].pc = "done"
        /\ rag.ins[t].book_id = None
        /\ Len(rag.ins[t].all_passages) = 6
        /\ Len(rag.ins[t].ret) = 1
        /\ Len(rag.ins[t].ret[1].sources) = 5
        /\ rag.ins[t].ret[1].sources[1].book_id = Books[1]
        /\ rag.ins[t].ret[1].sources[3].book_id = Books[2]
        /\ rag.ins[t].ret[1].sources[5].book_id = Books[3]

\* C36: _extract_relevant_passages returns at most max_passages passages on
\* every path, a list read from the cache file included.
C36_AtMostMaxPassages ==
    \A req \in Requests : req.pc = "done" => Len(req.ret) <= req.max_passages

----------------------------------------------------------------------------
(* Properties of concurrent writers *)

\* the threads that have returned from a set of key
Writers(key) == {t \in Threads : threads[t].pc = "set" /\ threads[t].key = key}

\* no set of key is under way
Settled(key) == \A t \in Threads : threads[t].pc = "dump" => threads[t].key # key

\* C34: once the concurrent sets of a key have returned, its file holds the
\* entry of one of them in full, and get gives the payload of one of them: never
\* a mixture, never a file get cannot read; a key with one writer holds that
\* writer's entry whatever happens to other keys.
C34_LastWriteWins ==
    \A key \in Keys :
        (Writers(key) # {} /\ Settled(key)) =>
            /\ key \in DOMAIN cache
            /\ cache[key] \in {threads[t].entry : t \in Writers(key)}
            /\ (last.op = "get" /\ last.arg = key) =>
                   last.ret \in {threads[t].entry.data : t \in Writers(key)}

----------------------------------------------------------------------------
(* Properties of the gated clients *)

\* the last operation was a request of one of the clients
LastRequest == last.op \in {"chat_completion", "_make_request"}

\* the positions of event e in a trace
Positions(trace, e) == {i \in 1..Len(trace) : trace[i] = e}

\* C5: every upstream call of chat_completion and _make_request is preceded, in
\* the same request, by exactly one track_api_call, which returned true, and
\* followed by none.
C5_UpstreamOnlyBehindGate ==
    LastRequest =>
        \A i \in Positions(last.trace, "upstream") :
            /\ Cardinality({j \in Positions(last.trace, "track_allowed") : j < i}) = 1
            /\ Positions(last.trace, "track_denied") = {}
            /\ \A j \in Positions(last.trace, "track_allowed") : j < i

\* C6: a request whose track_api_call returned false makes no upstream call and
\* returns the rate-limit error result.
C6_DeniedRequestStaysLocal ==
    (LastRequest /\ Positions(last.trace, "track_denied") # {}) =>
        /\ Positions(last.trace, "upstream") = {}
        /\ last.ret = ErrRateLimit

\* C6 witness: chat_completion was denied by the gate
C6_Witness ==
    /\ last.op = "chat_completion"
    /\ Positions(last.trace, "track_denied") # {}
    /\ api_usage["groq"].count = limits["groq"]
    /\ api_usage["tavily"].count = limits["tavily"]

\* the response the cache holds for the request the step makes, None when it
\* holds none or the request does not look: a chat_completion that streams
CachedFor(request) ==
    IF request.op = "chat_completion"
    THEN IF request.arg[2] THEN None
         ELSE GetResult(cache, enabled, GroqCacheKey(request.arg[1]), now).ret
    ELSE GetResult(cache, enabled, TavilyCacheKey(request.arg[1], request.arg[2]), now).ret

\* C37: a request of chat_completion or _make_request that finds a cached
\* response for its key calls neither track_api_call nor the upstream: the
\* counters and the usage file are as they were.
C37_CacheHitConsumesNoBudget ==
    [][(/\ now' = now
        /\ last'.op \in {"chat_completion", "_make_request"}
        /\ CachedFor(last') # None)
       => /\ api_usage' = api_usage
          /\ usage_file' = usage_file
          /\ Positions(last'.trace, "track_allowed") = {}
          /\ Positions(last'.trace, "track_denied") = {}
          /\ Positions(last'.trace, "upstream") = {}
          /\ last'.trace = <<"get">> => last'.ret = CachedFor(last')]_vars

\* chat_completion was answered from the cache while the budget of groq was
\* used up
C37_Witness ==
    /\ last.op = "chat_completion"
    /\ last.trace = <<"get">>
    /\ last.ret = GroqResponse
    /\ api_usage["groq"].count = limits["groq"]

----------------------------------------------------------------------------
(* Properties of concurrent callers *)

\* the threads whose call for api_name returned True
Allowed(api_name) ==
    {t \in Threads : /\ threads[t].pc = "done"
                     /\ threads[t].api_name = api_name
                     /\ threads[t].ret}

\* C2: under any interleaving of concurrent calls of track_api_call for one
\* api_name in one window, at most L calls return true and the counter never
\* exceeds L.
C2_ConcurrentCallsWithinLimit ==
    \A n \in DOMAIN api_usage :
        HasRateLimit(n) =>
            /\ Cardinality(Allowed(n)) <= RateLimit(limits, n)
            /\ api_usage[n].count <= RateLimit(limits, n)

====
